---- MODULE Spec2Model ----
(***************************************************************************)
(* specsmith `openapi`: the command (commands/openapi.py) and the context  *)
(* gathering, prompt assembly and response parsing behind it               *)
(* (ai/openapi.py).                                                        *)
(*                                                                         *)
(* A Python str is a sequence of one-character strings, so that slicing,   *)
(* strip(), lower(), substring tests, glob matching and the regular        *)
(* expression of _parse_endpoint_docs are computed character by character. *)
(* A filesystem path below the project root is the sequence of its parts.  *)
(***************************************************************************)
EXTENDS Integers, Sequences, FiniteSets, TLC

VARIABLES
    fs,             \* regular files below the project root: path -> [content, mode]
    dirs,           \* directories below the project root (the root is <<>>)
    outside,        \* files written outside the project root: location -> content
    trailingFiles,  \* pathlib variant: does a pattern ending in ** yield files too
    op,             \* scan specification: the function applied last, with its arguments
    ret,            \* scan specification: what that call returned or raised
    pc,             \* command: position of the invocation
    args,           \* command: [api_key, dry_run, include] of the invocation
    environ,        \* os.environ.get("ANTHROPIC_API_KEY") (None when unset)
    installed,      \* whether the import of specsmith.ai.openapi succeeds
    fs0,            \* command: the files, directories and outside writes at invocation start
    loc,            \* command: the locals of openapi() (is_update, context, yaml_content, ...)
    requests,       \* every messages.create call issued so far, in order
    written,        \* every write_text target of the invocation, in order
    console,        \* what the invocation printed, in order
    exit_code       \* None while running; 0, 1 (typer.Exit(1) or uncaught exception)

vars == <<fs, dirs, outside, trailingFiles, op, ret, pc, args, environ, installed,
          fs0, loc, requests, written, console, exit_code>>

None == "None"

----------------------------------------------------------------------------
(* Text *)

Min(a, b) == IF a <= b THEN a ELSE b

\* The characters of the model in code-point order (ASCII 9, 10, 13, 32..126).
\* The grave accent (code point 96), which a TLA+ string cannot hold, is
\* written "backtick".
CharTable == <<"\t","\n","\r"," ","!","\"","#","$","%","&","'","(",")","*","+",",","-",".","/","0","1","2","3","4","5","6","7","8","9",":",";","<","=",">","?","@","A","B","C","D","E","F","G","H","I","J","K","L","M","N","O","P","Q","R","S","T","U","V","W","X","Y","Z","[","\\","]","^","_","backtick","a","b","c","d","e","f","g","h","i","j","k","l","m","n","o","p","q","r","s","t","u","v","w","x","y","z","{","|","}","~">>

Chars == {CharTable[i] : i \in 1..Len(CharTable)}

\* Position in code-point order: Ord(a) < Ord(b) iff ord(a) < ord(b) in Python.
Ord == [c \in Chars |-> CHOOSE i \in 1..Len(CharTable) : CharTable[i] = c]

UpperCase == <<"A","B","C","D","E","F","G","H","I","J","K","L","M","N","O","P","Q","R","S","T","U","V","W","X","Y","Z">>
LowerCase == <<"a","b","c","d","e","f","g","h","i","j","k","l","m","n","o","p","q","r","s","t","u","v","w","x","y","z">>

\* str.lower() on one character.
LowerChar == [c \in Chars |->
    IF \E i \in 1..Len(UpperCase) : UpperCase[i] = c
    THEN LowerCase[CHOOSE i \in 1..Len(UpperCase) : UpperCase[i] = c]
    ELSE c]

\* str.lower()
Lower(s) == [i \in 1..Len(s) |-> LowerChar[s[i]]]

\* The whitespace str.strip() removes and \s matches.
WS == {" ", "\t", "\n", "\r"}

\* s[:n] for n >= 0
Take(s, n) == IF n >= Len(s) THEN s ELSE SubSeq(s, 1, n)

\* s[n:] for n >= 0
Drop(s, n) == IF n >= Len(s) THEN <<>> ELSE SubSeq(s, n + 1, Len(s))

\* p occurs in s at index i (1-based)
IsAt(s, i, p) == /\ i >= 1
                 /\ i + Len(p) - 1 <= Len(s)
                 /\ \A k \in 1..Len(p) : s[i + k - 1] = p[k]

\* s.startswith(p), s.endswith(p), p in s
StartsWith(s, p) == IsAt(s, 1, p)
EndsWith(s, p) == IsAt(s, Len(s) - Len(p) + 1, p)
Contains(s, p) == \E i \in 1..(Len(s) - Len(p) + 1) : IsAt(s, i, p)

RECURSIVE FirstNonWs(_, _)
FirstNonWs(s, i) == IF i > Len(s) \/ s[i] \notin WS THEN i ELSE FirstNonWs(s, i + 1)

RECURSIVE LastNonWs(_, _)
LastNonWs(s, i) == IF i < 1 \/ s[i] \notin WS THEN i ELSE LastNonWs(s, i - 1)

\* str.strip()
Strip(s) == LET a == FirstNonWs(s, 1)
                b == LastNonWs(s, Len(s))
            IN  IF a > b THEN <<>> ELSE SubSeq(s, a, b)

\* sep.join(parts)
RECURSIVE Join(_, _)
Join(sep, parts) ==
    IF parts = <<>> THEN <<>>
    ELSE IF Len(parts) = 1 THEN parts[1]
    ELSE parts[1] \o sep \o Join(sep, Tail(parts))

\* s.split(c) for a one-character separator c
RECURSIVE SplitAt(_, _, _, _)
SplitAt(s, c, i, start) ==
    IF i > Len(s) THEN <<SubSeq(s, start, Len(s))>>
    ELSE IF s[i] = c THEN <<SubSeq(s, start, i - 1)>> \o SplitAt(s, c, i + 1, i + 1)
    ELSE SplitAt(s, c, i + 1, start)

Split(s, c) == SplitAt(s, c, 1, 1)

\* a < b for two str (lexicographic by code point)
TextLess(a, b) ==
    LET n == Min(Len(a), Len(b))
        d == {i \in 1..n : a[i] # b[i]}
    IN  IF d = {} THEN Len(a) < Len(b)
        ELSE LET i == CHOOSE j \in d : \A k \in d : j <= k
             IN  Ord[a[i]] < Ord[b[i]]

\* p < q for two paths: their parts compared as lists of str
PathLess(p, q) ==
    LET n == Min(Len(p), Len(q))
        d == {i \in 1..n : p[i] # q[i]}
    IN  IF d = {} THEN Len(p) < Len(q)
        ELSE LET i == CHOOSE j \in d : \A k \in d : j <= k
             IN  TextLess(p[i], q[i])

\* sorted(S) for a set of paths
RECURSIVE SortPaths(_)
SortPaths(S) ==
    IF S = {} THEN <<>>
    ELSE LET m == CHOOSE x \in S : \A y \in S : x = y \/ PathLess(x, y)
         IN  <<m>> \o SortPaths(S \ {m})

\* str(path): the parts joined by the separator
PathStr(p) == Join(<<"/">>, p)

----------------------------------------------------------------------------
(* Files.  The project root is the directory /srv/proj; a path below it is  *)
(* the sequence of its parts relative to the root.  read_text() of a file   *)
(* returns its content, or raises OSError (permission denied, file removed  *)
(* since it was listed) or UnicodeDecodeError (bytes that are not text),    *)
(* according to the file's mode.                                            *)

RootAbs == << <<"s","r","v">>, <<"p","r","o","j">> >>

\* project_root.name
ProjectName == RootAbs[Len(RootAbs)]

Ok(v) == [exc |-> None, val |-> v]
Raise(e) == [exc |-> e, val |-> None]

Exists(p) == p \in DOMAIN fs \/ p \in dirs
IsFile(p) == p \in DOMAIN fs
IsDir(p) == p \in dirs

\* Path.read_text() of a path below the root
ReadText(p) ==
    IF p \in DOMAIN fs
    THEN IF fs[p].mode = "ok" THEN Ok(fs[p].content) ELSE Raise(fs[p].mode)
    ELSE Raise("OSError")

\* Every file and directory below the root (the root itself excluded).
Entries == (DOMAIN fs \cup dirs) \ {<<>>}

\* Absolute locations: the parts from / down.
IsPrefix(a, b) == Len(a) <= Len(b) /\ SubSeq(b, 1, Len(a)) = a
InsideRoot(a) == IsPrefix(RootAbs, a)
Rel(a) == SubSeq(a, Len(RootAbs) + 1, Len(a))

\* Outside the project only the ancestors of the root are known directories.
IsDirAbs(ds, a) == IF InsideRoot(a) THEN Rel(a) \in ds ELSE IsPrefix(a, RootAbs)
IsFileAbs(a) == IF InsideRoot(a) THEN Rel(a) \in DOMAIN fs ELSE a \in DOMAIN outside
ContentAbs(a) == IF InsideRoot(a) THEN fs[Rel(a)] ELSE [content |-> outside[a], mode |-> "ok"]

\* base / name  (pathlib: an absolute name replaces the base; empty and "."
\* parts are dropped; ".." parts are kept for the operating system to resolve)
JoinParts(name) == SelectSeq(Split(name, "/"), LAMBDA x : x # <<>> /\ x # <<".">>)
IsAbsName(name) == name # <<>> /\ name[1] = "/"

\* The operating system's resolution of the parts segs from location cur, with
\* ds the directories below the root: every part but the last must lead to a
\* directory.
RECURSIVE OsWalk(_, _, _)
OsWalk(ds, cur, segs) ==
    IF segs = <<>> THEN Ok(cur)
    ELSE IF ~IsDirAbs(ds, cur) THEN Raise("OSError")
    ELSE IF Head(segs) = <<".", ".">>
         THEN OsWalk(ds, IF cur = <<>> THEN cur ELSE SubSeq(cur, 1, Len(cur) - 1), Tail(segs))
         ELSE OsWalk(ds, Append(cur, Head(segs)), Tail(segs))

\* The location the operating system reaches for base / name (base below the root).
Locate(ds, base, name) ==
    IF IsAbsName(name) THEN OsWalk(ds, <<>>, JoinParts(name))
    ELSE OsWalk(ds, RootAbs \o base, JoinParts(name))

----------------------------------------------------------------------------
(* Tables of ai/openapi.py *)

SKIP_DIRS == { <<"n","o","d","e","_","m","o","d","u","l","e","s">>, <<"_","_","p","y","c","a","c","h","e","_","_">>, <<"v","e","n","v">>, <<".","v","e","n","v">>, <<"d","i","s","t">>, <<"b","u","i","l","d">>,
               <<"t","a","r","g","e","t">>, <<".","g","r","a","d","l","e">>, <<".","i","d","e","a">>, <<".","g","i","t">>, <<".","s","p","e","c","s">>, <<".","o","p","e","n","a","p","i">> }

\* manifest file -> (marker substring, framework), in dict order
FRAMEWORK_MARKERS == <<
    [manifest |-> <<"p","a","c","k","a","g","e",".","j","s","o","n">>, markers |-> <<
        << <<"@","n","e","s","t","j","s","/","c","o","r","e">>, "nestjs" >>,
        << <<"e","x","p","r","e","s","s">>, "express" >>,
        << <<"f","a","s","t","i","f","y">>, "fastify" >>,
        << <<"k","o","a">>, "koa" >>,
        << <<"h","o","n","o">>, "hono" >>,
        << <<"n","e","x","t">>, "nextjs" >> >>],
    [manifest |-> <<"p","y","p","r","o","j","e","c","t",".","t","o","m","l">>, markers |-> <<
        << <<"f","a","s","t","a","p","i">>, "fastapi" >>,
        << <<"d","j","a","n","g","o">>, "django" >>,
        << <<"f","l","a","s","k">>, "flask" >> >>],
    [manifest |-> <<"r","e","q","u","i","r","e","m","e","n","t","s",".","t","x","t">>, markers |-> <<
        << <<"f","a","s","t","a","p","i">>, "fastapi" >>,
        << <<"d","j","a","n","g","o">>, "django" >>,
        << <<"f","l","a","s","k">>, "flask" >> >>],
    [manifest |-> <<"p","o","m",".","x","m","l">>, markers |-> <<
        << <<"s","p","r","i","n","g","-","b","o","o","t">>, "spring" >> >>],
    [manifest |-> <<"b","u","i","l","d",".","g","r","a","d","l","e">>, markers |-> <<
        << <<"s","p","r","i","n","g","-","b","o","o","t">>, "spring" >> >>],
    [manifest |-> <<"b","u","i","l","d",".","g","r","a","d","l","e",".","k","t","s">>, markers |-> <<
        << <<"s","p","r","i","n","g","-","b","o","o","t">>, "spring" >> >>],
    [manifest |-> <<"g","o",".","m","o","d">>, markers |-> <<
        << <<"g","i","n","-","g","o","n","i","c","/","g","i","n">>, "gin" >>,
        << <<"l","a","b","s","t","a","c","k","/","e","c","h","o">>, "echo" >>,
        << <<"g","o","f","i","b","e","r","/","f","i","b","e","r">>, "fiber" >> >>],
    [manifest |-> <<"G","e","m","f","i","l","e">>, markers |-> <<
        << <<"r","a","i","l","s">>, "rails" >> >>],
    [manifest |-> <<"C","a","r","g","o",".","t","o","m","l">>, markers |-> <<
        << <<"a","x","u","m">>, "axum" >>,
        << <<"a","c","t","i","x","-","w","e","b">>, "actix" >> >>] >>

GoRoutes == << <<"*","*","/","h","a","n","d","l","e","r","*",".","g","o">>, <<"*","*","/","r","o","u","t","e","s","*",".","g","o">>, <<"*","*","/","a","p","i","/","*","*","/","*",".","g","o">> >>
RustRoutes == << <<"*","*","/","h","a","n","d","l","e","r","s","/","*","*","/","*",".","r","s">>, <<"*","*","/","r","o","u","t","e","s",".","r","s">>, <<"*","*","/","a","p","i","/","*","*","/","*",".","r","s">> >>

\* _ROUTE_PATTERNS.get(framework, [])
ROUTE_PATTERNS(framework) ==
    CASE framework = "spring" ->
            << <<"*","*","/","*","C","o","n","t","r","o","l","l","e","r",".","j","a","v","a">>, <<"*","*","/","*","C","o","n","t","r","o","l","l","e","r",".","k","t">>,
               <<"*","*","/","*","R","e","s","o","u","r","c","e",".","j","a","v","a">>, <<"*","*","/","*","R","e","s","o","u","r","c","e",".","k","t">> >>
      [] framework = "nestjs" -> << <<"*","*","/","*",".","c","o","n","t","r","o","l","l","e","r",".","t","s">>, <<"*","*","/","*",".","c","o","n","t","r","o","l","l","e","r",".","j","s">> >>
      [] framework = "express" ->
            << <<"*","*","/","r","o","u","t","e","s","/","*","*","/","*",".","t","s">>, <<"*","*","/","r","o","u","t","e","s","/","*","*","/","*",".","j","s">>, <<"*","*","/","*",".","r","o","u","t","e","r",".","t","s">>, <<"*","*","/","*",".","r","o","u","t","e","r",".","j","s">> >>
      [] framework = "fastify" ->
            << <<"*","*","/","r","o","u","t","e","s","/","*","*","/","*",".","t","s">>, <<"*","*","/","r","o","u","t","e","s","/","*","*","/","*",".","j","s">>, <<"*","*","/","*",".","r","o","u","t","e",".","t","s">>, <<"*","*","/","*",".","r","o","u","t","e",".","j","s">> >>
      [] framework = "koa" -> << <<"*","*","/","r","o","u","t","e","s","/","*","*","/","*",".","t","s">>, <<"*","*","/","r","o","u","t","e","s","/","*","*","/","*",".","j","s">>, <<"*","*","/","*",".","r","o","u","t","e","r",".","t","s">> >>
      [] framework = "hono" -> << <<"*","*","/","r","o","u","t","e","s","/","*","*","/","*",".","t","s">>, <<"*","*","/","*",".","r","o","u","t","e",".","t","s">> >>
      [] framework = "nextjs" ->
            << <<"*","*","/","a","p","p","/","*","*","/","r","o","u","t","e",".","t","s">>, <<"*","*","/","a","p","p","/","*","*","/","r","o","u","t","e",".","j","s">>,
               <<"*","*","/","p","a","g","e","s","/","a","p","i","/","*","*","/","*",".","t","s">>, <<"*","*","/","p","a","g","e","s","/","a","p","i","/","*","*","/","*",".","j","s">> >>
      [] framework = "fastapi" ->
            << <<"*","*","/","r","o","u","t","e","r","s","/","*","*","/","*",".","p","y">>, <<"*","*","/","r","o","u","t","e","s","/","*","*","/","*",".","p","y">>, <<"*","*","/","a","p","i","/","*","*","/","*",".","p","y">>, <<"*","*","/","e","n","d","p","o","i","n","t","s","/","*","*","/","*",".","p","y">> >>
      [] framework = "django" ->
            << <<"*","*","/","v","i","e","w","s",".","p","y">>, <<"*","*","/","u","r","l","s",".","p","y">>, <<"*","*","/","a","p","i","/","*","*","/","*",".","p","y">>, <<"*","*","/","v","i","e","w","s","/","*","*","/","*",".","p","y">> >>
      [] framework = "flask" -> << <<"*","*","/","r","o","u","t","e","s",".","p","y">>, <<"*","*","/","v","i","e","w","s",".","p","y">>, <<"*","*","/","a","p","i","/","*","*","/","*",".","p","y">> >>
      [] framework \in {"gin", "echo", "fiber"} -> GoRoutes
      [] framework = "rails" -> << <<"*","*","/","c","o","n","t","r","o","l","l","e","r","s","/","*","*","/","*",".","r","b">>, <<"*","*","/","r","o","u","t","e","s",".","r","b">> >>
      [] framework \in {"axum", "actix"} -> RustRoutes
      [] OTHER -> <<>>

GENERIC_ROUTE_PATTERNS == <<
    <<"*","*","/","*","c","o","n","t","r","o","l","l","e","r","*",".","*">>, <<"*","*","/","*","C","o","n","t","r","o","l","l","e","r","*",".","*">>, <<"*","*","/","r","o","u","t","e","s","/","*","*">>,
    <<"*","*","/","*","r","o","u","t","e","r","*",".","*">>, <<"*","*","/","*","h","a","n","d","l","e","r","*",".","*">>, <<"*","*","/","a","p","i","/","*","*">> >>

\* _SCHEMA_PATTERNS.get(framework, [])
SCHEMA_PATTERNS(framework) ==
    CASE framework = "spring" ->
            << <<"*","*","/","d","t","o","/","*","*","/","*",".","j","a","v","a">>, <<"*","*","/","d","t","o","/","*","*","/","*",".","k","t">>, <<"*","*","/","e","n","t","i","t","y","/","*","*","/","*",".","j","a","v","a">>,
               <<"*","*","/","e","n","t","i","t","y","/","*","*","/","*",".","k","t">>, <<"*","*","/","m","o","d","e","l","/","*","*","/","*",".","j","a","v","a">>, <<"*","*","/","m","o","d","e","l","/","*","*","/","*",".","k","t">> >>
      [] framework = "nestjs" ->
            << <<"*","*","/","*",".","d","t","o",".","t","s">>, <<"*","*","/","*",".","e","n","t","i","t","y",".","t","s">>, <<"*","*","/","*",".","s","c","h","e","m","a",".","t","s">>, <<"*","*","/","m","o","d","e","l","s","/","*","*","/","*",".","t","s">> >>
      [] framework = "express" ->
            << <<"*","*","/","*",".","d","t","o",".","t","s">>, <<"*","*","/","*",".","m","o","d","e","l",".","t","s">>, <<"*","*","/","m","o","d","e","l","s","/","*","*","/","*",".","t","s">>, <<"*","*","/","s","c","h","e","m","a","s","/","*","*","/","*",".","t","s">> >>
      [] framework = "fastapi" ->
            << <<"*","*","/","m","o","d","e","l","s","/","*","*","/","*",".","p","y">>, <<"*","*","/","s","c","h","e","m","a","s","/","*","*","/","*",".","p","y">>, <<"*","*","/","d","t","o","/","*","*","/","*",".","p","y">> >>
      [] framework = "django" ->
            << <<"*","*","/","m","o","d","e","l","s",".","p","y">>, <<"*","*","/","s","e","r","i","a","l","i","z","e","r","s",".","p","y">>, <<"*","*","/","m","o","d","e","l","s","/","*","*","/","*",".","p","y">> >>
      [] framework = "flask" ->
            << <<"*","*","/","m","o","d","e","l","s",".","p","y">>, <<"*","*","/","s","c","h","e","m","a","s",".","p","y">>, <<"*","*","/","m","o","d","e","l","s","/","*","*","/","*",".","p","y">> >>
      [] framework = "gin" ->
            << <<"*","*","/","m","o","d","e","l","s","/","*","*","/","*",".","g","o">>, <<"*","*","/","d","t","o","/","*","*","/","*",".","g","o">>, <<"*","*","/","t","y","p","e","s","/","*","*","/","*",".","g","o">> >>
      [] framework = "rails" -> << <<"*","*","/","m","o","d","e","l","s","/","*","*","/","*",".","r","b">>, <<"*","*","/","s","e","r","i","a","l","i","z","e","r","s","/","*","*","/","*",".","r","b">> >>
      [] OTHER -> <<>>

GENERIC_SCHEMA_PATTERNS == <<
    <<"*","*","/","*",".","d","t","o",".","*">>, <<"*","*","/","*",".","e","n","t","i","t","y",".","*">>, <<"*","*","/","*",".","s","c","h","e","m","a",".","*">>, <<"*","*","/","m","o","d","e","l","s","/","*","*">>,
    <<"*","*","/","s","c","h","e","m","a","s","/","*","*">>, <<"*","*","/","e","n","t","i","t","i","e","s","/","*","*">>, <<"*","*","/","d","t","o","/","*","*">> >>

MIDDLEWARE_PATTERNS == <<
    <<"*","*","/","*","a","u","t","h","*",".","*">>, <<"*","*","/","*","m","i","d","d","l","e","w","a","r","e","*",".","*">>, <<"*","*","/","*","s","e","c","u","r","i","t","y","*",".","*">>, <<"*","*","/","*","g","u","a","r","d","*",".","*">>,
    <<"*","*","/","*","i","n","t","e","r","c","e","p","t","o","r","*",".","*">>, <<"*","*","/","m","i","d","d","l","e","w","a","r","e","/","*","*">> >>

CONFIG_PATTERNS == <<
    <<"*","*","/","a","p","p","l","i","c","a","t","i","o","n",".","y","m","l">>, <<"*","*","/","a","p","p","l","i","c","a","t","i","o","n",".","y","a","m","l">>, <<"*","*","/","a","p","p","l","i","c","a","t","i","o","n",".","p","r","o","p","e","r","t","i","e","s">>,
    <<"*","*","/","a","p","p","l","i","c","a","t","i","o","n","-","*",".","y","m","l">>, <<".","e","n","v",".","e","x","a","m","p","l","e">>, <<".","e","n","v",".","s","a","m","p","l","e">>,
    <<"*","*","/","c","o","n","f","i","g","/","s","e","r","v","e","r","*",".","*">>, <<"*","*","/","c","o","n","f","i","g","/","a","p","p","*",".","*">> >>

\* The manifests _read_manifests reads, in its order
MANIFEST_NAMES == << <<"p","a","c","k","a","g","e",".","j","s","o","n">>, <<"p","y","p","r","o","j","e","c","t",".","t","o","m","l">>, <<"C","a","r","g","o",".","t","o","m","l">>, <<"g","o",".","m","o","d">>,
                     <<"G","e","m","f","i","l","e">>, <<"p","o","m",".","x","m","l">>, <<"b","u","i","l","d",".","g","r","a","d","l","e">>, <<"b","u","i","l","d",".","g","r","a","d","l","e",".","k","t","s">> >>

\* Character caps
MANIFEST_CAP == 3000
PER_FILE_CAP == 4000
INCLUDE_CAP == 4000
EXISTING_SPEC_CAP == 15000
OPENAPI_YAML_CAP == 20000
EXISTING_DOC_CAP == 3000

\* max_files of _glob_files: its default, and the middleware and config calls
MAX_FILES_DEFAULT == 30
MAX_FILES_MIDDLEWARE == 15
MAX_FILES_CONFIG == 10

\* _build_tree: depth limit and files listed per directory
TREE_DEPTH == 3
TREE_FILES == 20

----------------------------------------------------------------------------
(* Context gathering (ai/openapi.py) *)

\* _build_tree: the files listed for one directory and the directories walked below it
ChildFiles(d) == {p \in DOMAIN fs : Len(p) = Len(d) + 1 /\ IsPrefix(d, p)}
ChildDirs(d) == {p \in dirs : Len(p) = Len(d) + 1 /\ IsPrefix(d, p)}
WalkedDirs(d) == {p \in ChildDirs(d) : p[Len(p)][1] # "." /\ p[Len(p)] \notin SKIP_DIRS}

Indent(depth) == [i \in 1..(2 * depth) |-> " "]

RECURSIVE TreeLines(_, _)
RECURSIVE TreeOfEach(_, _)
TreeLines(d, depth) ==
    IF depth >= TREE_DEPTH THEN <<>>
    ELSE LET name == IF d = <<>> THEN ProjectName ELSE d[Len(d)]
             files == Take(SortPaths(ChildFiles(d)), TREE_FILES)
         IN  << Indent(depth) \o name \o <<"/">> >>
             \o [i \in 1..Len(files) |-> Indent(depth) \o <<" ", " ">> \o files[i][Len(files[i])]]
             \o TreeOfEach(SortPaths(WalkedDirs(d)), depth + 1)
TreeOfEach(ds, depth) ==
    IF ds = <<>> THEN <<>> ELSE TreeLines(Head(ds), depth) \o TreeOfEach(Tail(ds), depth)

\* _build_tree(project_root)
BuildTree == Join(<<"\n">>, TreeLines(<<>>, 0))

\* _read_manifests(project_root): no read error is caught
RECURSIVE ReadManifestsFrom(_)
ReadManifestsFrom(i) ==
    IF i > Len(MANIFEST_NAMES) THEN Ok(<<>>)
    ELSE IF ~Exists(<<MANIFEST_NAMES[i]>>) THEN ReadManifestsFrom(i + 1)
    ELSE LET r == ReadText(<<MANIFEST_NAMES[i]>>)
         IN  IF r.exc # None THEN r
             ELSE LET rest == ReadManifestsFrom(i + 1)
                  IN  IF rest.exc # None THEN rest
                      ELSE Ok(<< <<"#","#","#"," ">> \o MANIFEST_NAMES[i] \o <<"\n","backtick","backtick","backtick","\n">>
                                 \o Take(r.val, MANIFEST_CAP) \o <<"\n","backtick","backtick","backtick">> >> \o rest.val)

ReadManifests ==
    LET r == ReadManifestsFrom(1)
    IN  IF r.exc # None THEN r ELSE Ok(Join(<<"\n">>, r.val))

\* Faulty variant of the inner loop: the last marker found wins
RECURSIVE LastMarker(_, _, _)
LastMarker(markers, content, j) ==
    IF j > Len(markers) THEN None
    ELSE LET later == LastMarker(markers, content, j + 1)
         IN  IF later # None THEN later
             ELSE IF Contains(content, markers[j][1]) THEN markers[j][2]
             ELSE None

\* The inner loop of _detect_framework: the framework of the first marker found
RECURSIVE FirstMarker(_, _, _)
FirstMarker(markers, content, j) ==
    IF j > Len(markers) THEN None
    ELSE IF Contains(content, markers[j][1]) THEN markers[j][2]
    ELSE FirstMarker(markers, content, j + 1)

\* What _detect_framework does with a manifest whose read raised: OSError is
\* caught (continue), anything else propagates.
ManifestReadCaught(exc) == exc = "OSError"

\* _detect_framework(project_root)
RECURSIVE DetectFrom(_)
DetectFrom(i) ==
    IF i > Len(FRAMEWORK_MARKERS) THEN Ok("unknown")
    ELSE LET fp == <<FRAMEWORK_MARKERS[i].manifest>>
         IN  IF ~Exists(fp) THEN DetectFrom(i + 1)
             ELSE LET r == ReadText(fp)
                  IN  IF r.exc # None
                      THEN IF ManifestReadCaught(r.exc) THEN DetectFrom(i + 1) ELSE r
                      ELSE LET hit == FirstMarker(FRAMEWORK_MARKERS[i].markers, Lower(r.val), 1)
                           IN  IF hit # None THEN Ok(hit) ELSE DetectFrom(i + 1)

DetectFramework == DetectFrom(1)

\* fnmatch of one path part against one pattern part (* is the only wildcard
\* the pattern tables use); case-sensitive, as on POSIX
RECURSIVE FnMatchAt(_, _, _, _)
FnMatchAt(name, pat, i, j) ==
    IF j > Len(pat) THEN i > Len(name)
    ELSE IF pat[j] = "*"
         THEN FnMatchAt(name, pat, i, j + 1) \/ (i <= Len(name) /\ FnMatchAt(name, pat, i + 1, j))
         ELSE i <= Len(name) /\ name[i] = pat[j] /\ FnMatchAt(name, pat, i + 1, j + 1)

FnMatch(name, pat) == FnMatchAt(name, pat, 1, 1)

\* Whether pathlib's glob of the pattern parts ps yields the entry whose remaining
\* parts are path.  ** stands for any number of directories; a pattern ending
\* in ** yields directories and, from Python 3.13 on, files too.
RECURSIVE GlobMatch(_, _, _)
GlobMatch(ps, path, isFile) ==
    IF ps = <<>> THEN path = <<>>
    ELSE IF Head(ps) = <<"*", "*">>
         THEN IF Len(ps) = 1
              THEN IF isFile THEN path # <<>> /\ trailingFiles ELSE TRUE
              ELSE \E k \in 0..(Len(path) - 1) :
                       GlobMatch(Tail(ps), SubSeq(path, k + 1, Len(path)), isFile)
         ELSE /\ path # <<>>
              /\ FnMatch(Head(path), Head(ps))
              /\ GlobMatch(Tail(ps), Tail(path), isFile)

\* project_root.glob(pattern)
Glob(pattern) ==
    LET ps == Split(pattern, "/")
    IN  {p \in Entries : GlobMatch(ps, p, IsFile(p))}

\* Faulty variant of line 250: the seen set is not consulted
AnyFile(p, seen) == IsFile(p)

\* _glob_files line 250: a regular file not collected yet
FreshFile(p, seen) == IsFile(p) /\ p \notin seen

\* Faulty variant of line 253: no directory is ignored
NothingSkipped(p) == FALSE

\* _glob_files line 253: some part of the relative path is an ignored name
InSkipDir(p) == \E i \in 1..Len(p) : p[i] \in SKIP_DIRS

\* The loops of _glob_files: pattern i, its sorted matches from index j on
RECURSIVE GlobLoop(_, _, _, _, _, _, _)
GlobLoop(patterns, i, matches, j, max_files, seen, results) ==
    IF i > Len(patterns) THEN results
    ELSE IF j > Len(matches)
         THEN IF i = Len(patterns) THEN results
              ELSE GlobLoop(patterns, i + 1, SortPaths(Glob(patterns[i + 1])), 1,
                            max_files, seen, results)
    ELSE LET p == matches[j]
         IN  IF FreshFile(p, seen) /\ ~InSkipDir(p)
             THEN IF Len(results) + 1 >= max_files THEN Append(results, p)
                  ELSE GlobLoop(patterns, i, matches, j + 1, max_files,
                                seen \cup {p}, Append(results, p))
             ELSE GlobLoop(patterns, i, matches, j + 1, max_files, seen, results)

\* _glob_files(project_root, patterns, max_files)
GlobFiles(patterns, max_files) ==
    IF patterns = <<>> THEN <<>>
    ELSE GlobLoop(patterns, 1, SortPaths(Glob(patterns[1])), 1, max_files, {}, <<>>)

\* What _read_files does with a path whose read raised: OSError is caught
\* (continue), anything else propagates.
FileReadCaught(exc) == exc = "OSError"

\* _read_files(project_root, paths, per_file_cap)
RECURSIVE ReadFiles(_, _)
ReadFiles(paths, per_file_cap) ==
    IF paths = <<>> THEN Ok(<<>>)
    ELSE LET r == ReadText(Head(paths))
         IN  IF r.exc # None /\ ~FileReadCaught(r.exc) THEN r
             ELSE LET rest == ReadFiles(Tail(paths), per_file_cap)
                  IN  IF rest.exc # None THEN rest
                      ELSE IF r.exc # None THEN rest
                      ELSE Ok(<< <<PathStr(Head(paths)), Take(r.val, per_file_cap)>> >>
                              \o rest.val)

\* One alternative of _ENDPOINT_PATTERNS: a literal, one word of a group, a
\* literal, one word of a second group, \s* where the pattern has it, a literal
EP(lit, words, mid, words2, ws, close) ==
    [lit |-> lit, words |-> words, mid |-> mid, words2 |-> words2, ws |-> ws, close |-> close]

ENDPOINT_PATTERNS == <<
    EP(<<"@">>, << <<"G","e","t">>, <<"P","o","s","t">>, <<"P","u","t">>, <<"P","a","t","c","h">>, <<"D","e","l","e","t","e">> >>, <<>>, << <<>> >>,
       FALSE, <<"M","a","p","p","i","n","g">>),
    EP(<<"@","R","e","q","u","e","s","t","M","a","p","p","i","n","g">>, << <<>> >>, <<>>, << <<>> >>, FALSE, <<>>),
    EP(<<"@">>, << <<"G","e","t">>, <<"P","o","s","t">>, <<"P","u","t">>, <<"P","a","t","c","h">>, <<"D","e","l","e","t","e">>, <<"H","e","a","d">>, <<"O","p","t","i","o","n","s">> >>,
       <<>>, << <<>> >>, FALSE, <<"(">>),
    EP(<<".">>, << <<"g","e","t">>, <<"p","o","s","t">>, <<"p","u","t">>, <<"p","a","t","c","h">>, <<"d","e","l","e","t","e">>, <<"h","e","a","d">>, <<"o","p","t","i","o","n","s">> >>,
       <<>>, << <<>> >>, TRUE, <<"(">>),
    EP(<<"@">>, << <<"a","p","p">>, <<"r","o","u","t","e","r">>, <<"b","l","u","e","p","r","i","n","t">> >>, <<".">>,
       << <<"g","e","t">>, <<"p","o","s","t">>, <<"p","u","t">>, <<"p","a","t","c","h">>, <<"d","e","l","e","t","e">> >>, FALSE, <<"(">>),
    EP(<<"p","a","t","h">>, << <<>> >>, <<>>, << <<>> >>, TRUE, <<"(">>),
    EP(<<".">>, << <<"G","E","T">>, <<"P","O","S","T">>, <<"P","U","T">>, <<"P","A","T","C","H">>, <<"D","E","L","E","T","E">>, <<"H","a","n","d","l","e">>, <<"H","a","n","d","l","e","F","u","n","c">> >>,
       <<>>, << <<>> >>, FALSE, <<"(">>) >>

\* Where the alternative, taken with word w of its first group and word v of
\* its second, ends when it starts at index i of s (the index after the
\* match; 0 when it does not match there)
WordsEnd(s, i, alt, w, v) ==
    LET a == i + Len(alt.lit)
        b == a + Len(alt.words[w])
        c == b + Len(alt.mid)
        d == c + Len(alt.words2[v])
        f == IF alt.ws THEN FirstNonWs(s, d) ELSE d
    IN  IF /\ IsAt(s, a, alt.words[w])
           /\ IsAt(s, b, alt.mid)
           /\ IsAt(s, c, alt.words2[v])
           /\ IsAt(s, f, alt.close)
        THEN f + Len(alt.close) ELSE 0

\* Where a match of the alternative that starts at index i of s can end
AlternativeEnds(s, i, alt) ==
    IF ~IsAt(s, i, alt.lit) THEN {}
    ELSE {WordsEnd(s, i, alt, w, v) : w \in 1..Len(alt.words), v \in 1..Len(alt.words2)} \ {0}

\* Where the match of the combined pattern that starts at index i ends: that
\* of the first alternative matching there (0 when none does)
EndpointMatchEnd(s, i) ==
    LET hits == {k \in 1..Len(ENDPOINT_PATTERNS) : AlternativeEnds(s, i, ENDPOINT_PATTERNS[k]) # {}}
    IN  IF hits = {} THEN 0
        ELSE LET k == CHOOSE a \in hits : \A b \in hits : a <= b
             IN  CHOOSE e \in AlternativeEnds(s, i, ENDPOINT_PATTERNS[k]) : TRUE

\* len(pattern.findall(s)) for matches given as start index -> end index:
\* the leftmost match from the search position on, then on from its end
RECURSIVE CountMatches(_, _)
CountMatches(ends, from) ==
    LET later == {i \in DOMAIN ends : i >= from}
    IN  IF later = {} THEN 0
        ELSE LET i == CHOOSE a \in later : \A b \in later : a <= b
             IN  1 + CountMatches(ends, ends[i])

\* The characters a match of the combined pattern can begin with
LeadChars == {ENDPOINT_PATTERNS[k].lit[1] : k \in 1..Len(ENDPOINT_PATTERNS)}

EndpointsIn(content) ==
    LET starts == {i \in 1..Len(content) :
                      content[i] \in LeadChars /\ EndpointMatchEnd(content, i) # 0}
    IN  CountMatches([i \in starts |-> EndpointMatchEnd(content, i)], 1)

\* _count_endpoints(route_files)
RECURSIVE CountEndpoints(_)
CountEndpoints(route_files) ==
    IF route_files = <<>> THEN 0
    ELSE EndpointsIn(Head(route_files)[2]) + CountEndpoints(Tail(route_files))

\* \w for the characters of the model
WordChars ==
    {UpperCase[i] : i \in 1..Len(UpperCase)} \cup {LowerCase[i] : i \in 1..Len(LowerCase)}
    \cup {"0", "1", "2", "3", "4", "5", "6", "7", "8", "9", "_"}

RECURSIVE FirstNonWord(_, _)
FirstNonWord(s, i) == IF i > Len(s) \/ s[i] \notin WordChars THEN i ELSE FirstNonWord(s, i + 1)

\* The keywords of the pattern of _count_schemas, each as its literals with
\* \s+ between them.  The last alternative of the pattern,
\* class\s+\w+\(BaseModel\), begins as the first does and is tried only where
\* the first failed, so it never matches.
SCHEMA_KEYWORDS == <<
    << <<"c","l","a","s","s">> >>, << <<"i","n","t","e","r","f","a","c","e">> >>, << <<"t","y","p","e">> >>, << <<"s","t","r","u","c","t">> >>,
    << <<"d","a","t","a">>, <<"c","l","a","s","s">> >>, << <<"r","e","c","o","r","d">> >>, << <<"@","d","a","t","a","c","l","a","s","s">> >> >>

\* Where the literals, separated by \s+, end when they start at index k (0: no match)
RECURSIVE LiteralsEnd(_, _, _)
LiteralsEnd(s, k, lits) ==
    IF ~IsAt(s, k, Head(lits)) THEN 0
    ELSE LET e == k + Len(Head(lits))
         IN  IF Len(lits) = 1 THEN e
             ELSE IF FirstNonWs(s, e) = e THEN 0
             ELSE LiteralsEnd(s, FirstNonWs(s, e), Tail(lits))

\* Where keyword \s+ \w+ ends when the keyword starts at index k (0: no match)
DeclarationEnd(s, k) ==
    LET ends == {e \in {LET a == LiteralsEnd(s, k, SCHEMA_KEYWORDS[n])
                            b == FirstNonWs(s, a)
                        IN  IF a = 0 \/ b = a \/ FirstNonWord(s, b) = b THEN 0
                            ELSE FirstNonWord(s, b) : n \in 1..Len(SCHEMA_KEYWORDS)} : e # 0}
    IN  IF ends = {} THEN 0 ELSE CHOOSE e \in ends : TRUE

\* Where the match of the pattern of _count_schemas that starts at index i
\* ends (0: no match): the start of the text or a newline, \s*, an optional
\* export\s+, a declaration
SchemaMatchEnd(s, i) ==
    IF ~(i = 1 \/ s[i] = "\n") THEN 0
    ELSE LET k == FirstNonWs(s, i)
             x == k + Len(<<"e","x","p","o","r","t">>)
             withExport == IF IsAt(s, k, <<"e","x","p","o","r","t">>) /\ FirstNonWs(s, x) # x
                           THEN DeclarationEnd(s, FirstNonWs(s, x)) ELSE 0
         IN  IF withExport # 0 THEN withExport ELSE DeclarationEnd(s, k)

SchemasIn(content) ==
    LET starts == {i \in 1..Len(content) : SchemaMatchEnd(content, i) # 0}
    IN  CountMatches([i \in starts |-> SchemaMatchEnd(content, i)], 1)

\* _count_schemas(schema_files)
RECURSIVE CountSchemas(_)
CountSchemas(schema_files) ==
    IF schema_files = <<>> THEN 0
    ELSE SchemasIn(Head(schema_files)[2]) + CountSchemas(Tail(schema_files))

\* Faulty variant of line 342: route files without a counted endpoint do not count
OnlyCounted(endpoint_count, route_files) == endpoint_count > 0

\* gather_api_context line 342
HasApiCode(endpoint_count, route_files) == endpoint_count > 0 \/ Len(route_files) > 0

\* gather_api_context step 8: the user-specified include files
RECURSIVE ReadIncludes(_)
ReadIncludes(include_paths) ==
    IF include_paths = <<>> THEN Ok(<<>>)
    ELSE LET p == Head(include_paths)
             at == Locate(dirs, <<>>, p)
             isfile == at.exc = None /\ IsFileAbs(at.val)
             mode == IF isfile THEN ContentAbs(at.val).mode ELSE None
         IN  IF isfile /\ mode \notin {"ok", "OSError"} THEN Raise(mode)
             ELSE LET rest == ReadIncludes(Tail(include_paths))
                  IN  IF rest.exc # None THEN rest
                      ELSE IF isfile /\ mode = "ok"
                           THEN Ok(<< <<p, Take(ContentAbs(at.val).content, INCLUDE_CAP)>> >>
                                   \o rest.val)
                           ELSE rest

\* gather_api_context(project_root, include_paths): the ApiContext, or the
\* exception that left it
GatherApiContext(include_paths) ==
    LET manifests == ReadManifests
        framework == DetectFramework
        fw == framework.val
        routes == ReadFiles(GlobFiles(ROUTE_PATTERNS(fw) \o GENERIC_ROUTE_PATTERNS,
                                      MAX_FILES_DEFAULT), PER_FILE_CAP)
        schemas == ReadFiles(GlobFiles(SCHEMA_PATTERNS(fw) \o GENERIC_SCHEMA_PATTERNS,
                                       MAX_FILES_DEFAULT), PER_FILE_CAP)
        middleware == ReadFiles(GlobFiles(MIDDLEWARE_PATTERNS, MAX_FILES_MIDDLEWARE),
                                PER_FILE_CAP)
        config == ReadFiles(GlobFiles(CONFIG_PATTERNS, MAX_FILES_CONFIG), PER_FILE_CAP)
        extra == ReadIncludes(include_paths)
        endpoint_count == CountEndpoints(routes.val)
    IN  IF manifests.exc # None THEN manifests
        ELSE IF framework.exc # None THEN framework
        ELSE IF routes.exc # None THEN routes
        ELSE IF schemas.exc # None THEN schemas
        ELSE IF middleware.exc # None THEN middleware
        ELSE IF config.exc # None THEN config
        ELSE IF extra.exc # None THEN extra
        ELSE Ok([project_name |-> ProjectName,
                 project_structure |-> BuildTree,
                 package_info |-> manifests.val,
                 route_files |-> routes.val,
                 schema_files |-> schemas.val,
                 middleware_files |-> middleware.val,
                 config_files |-> config.val,
                 extra_files |-> extra.val,
                 endpoint_count |-> endpoint_count,
                 schema_count |-> CountSchemas(schemas.val),
                 has_api_code |-> HasApiCode(endpoint_count, routes.val)])

\* ApiContext.to_prompt_context: one labelled section of files
RECURSIVE FileBlocks(_)
FileBlocks(files) ==
    IF files = <<>> THEN <<>>
    ELSE << <<"#","#","#"," ">> \o files[1][1] \o <<"\n","backtick","backtick","backtick","\n">> \o files[1][2] \o <<"\n","backtick","backtick","backtick","\n">> >>
         \o FileBlocks(Tail(files))

Section(label, files) ==
    IF files = <<>> THEN <<>>
    ELSE << <<"#","#"," ">> \o label \o <<"\n">> >> \o FileBlocks(files)

\* ApiContext.to_prompt_context
ToPromptContext(ctx) ==
    Join(<<"\n">>,
         << <<"#"," ","P","r","o","j","e","c","t",":"," ">> \o ctx.project_name \o <<"\n">> >>
         \o (IF ctx.project_structure # <<>>
             THEN << <<"#","#"," ","P","r","o","j","e","c","t"," ","S","t","r","u","c","t","u","r","e","\n">> \o ctx.project_structure \o <<"\n">> >>
             ELSE <<>>)
         \o (IF ctx.package_info # <<>>
             THEN << <<"#","#"," ","P","a","c","k","a","g","e"," ","M","a","n","i","f","e","s","t","s","\n">> \o ctx.package_info \o <<"\n">> >>
             ELSE <<>>)
         \o Section(<<"R","o","u","t","e"," ","/"," ","C","o","n","t","r","o","l","l","e","r"," ","F","i","l","e","s">>, ctx.route_files)
         \o Section(<<"S","c","h","e","m","a"," ","/"," ","D","T","O"," ","F","i","l","e","s">>, ctx.schema_files)
         \o Section(<<"M","i","d","d","l","e","w","a","r","e"," ","/"," ","S","e","c","u","r","i","t","y"," ","F","i","l","e","s">>, ctx.middleware_files)
         \o Section(<<"C","o","n","f","i","g","u","r","a","t","i","o","n"," ","F","i","l","e","s">>, ctx.config_files)
         \o Section(<<"A","d","d","i","t","i","o","n","a","l"," ","F","i","l","e","s">>, ctx.extra_files))

----------------------------------------------------------------------------
(* Generation drivers (ai/openapi.py) *)

FENCE == <<"backtick","backtick","backtick">>
MAX_TOKENS == 16384

\* Faulty variant of _strip_yaml_fences: the trailing fence stays
LeadingFenceOnly(text) ==
    LET t0 == Strip(text)
    IN  IF StartsWith(t0, <<"backtick","backtick","backtick","y","a","m","l">>) THEN Strip(Drop(t0, 7))
        ELSE IF StartsWith(t0, <<"backtick","backtick","backtick","y","m","l">>) THEN Strip(Drop(t0, 6))
        ELSE IF StartsWith(t0, FENCE) THEN Strip(Drop(t0, 3))
        ELSE t0

\* _strip_yaml_fences(text)
StripYamlFences(text) ==
    LET t0 == Strip(text)
        t1 == IF StartsWith(t0, <<"backtick","backtick","backtick","y","a","m","l">>) THEN Strip(Drop(t0, 7))
              ELSE IF StartsWith(t0, <<"backtick","backtick","backtick","y","m","l">>) THEN Strip(Drop(t0, 6))
              ELSE IF StartsWith(t0, FENCE) THEN Strip(Drop(t0, 3))
              ELSE t0
    IN  IF EndsWith(t1, FENCE) THEN Strip(Take(t1, Len(t1) - 3)) ELSE t1

\* s.strip(c) for one character c
RECURSIVE FirstNot(_, _, _)
FirstNot(s, c, i) == IF i > Len(s) \/ s[i] # c THEN i ELSE FirstNot(s, c, i + 1)

RECURSIVE LastNot(_, _, _)
LastNot(s, c, i) == IF i < 1 \/ s[i] # c THEN i ELSE LastNot(s, c, i - 1)

StripChar(s, c) == LET a == FirstNot(s, c, 1)
                       b == LastNot(s, c, Len(s))
                   IN  IF a > b THEN <<>> ELSE SubSeq(s, a, b)

\* s.replace(c, r) for one character c
RECURSIVE Replace(_, _, _)
Replace(s, c, r) ==
    IF s = <<>> THEN <<>>
    ELSE (IF Head(s) = c THEN r ELSE <<Head(s)>>) \o Replace(Tail(s), c, r)

\* Faulty variant of line 401: every character is kept
AnyChar(c) == TRUE

\* _endpoint_slug line 401: the characters re.sub leaves, [a-zA-Z0-9-]
SlugChar(c) == c \in (WordChars \ {"_"}) \cup {"-"}

\* _endpoint_slug(method, path)
EndpointSlug(method, path) ==
    LET trimmed == StripChar(path, "/")
        hyphened == Replace(trimmed, "/", <<"-">>)
        unbraced == Replace(Replace(hyphened, "{", <<>>), "}", <<>>)
        slug == Lower(SelectSeq(unbraced, SlugChar))
    IN  Lower(method) \o <<"-">> \o slug

\* Faulty variant of line 381: the slice is one character short
ShortSpecExcerpt(existing_spec) == Take(existing_spec, EXISTING_SPEC_CAP - 1)

\* generate_openapi line 381: the excerpt of the existing spec
ExistingSpecExcerpt(existing_spec) == Take(existing_spec, EXISTING_SPEC_CAP)

EXISTING_SPEC_HEADER == <<"\n","#","#"," ","E","x","i","s","t","i","n","g"," ","O","p","e","n","A","P","I"," ","S","p","e","c"," ","(","u","p","d","a","t","e"," ","t","h","i","s",")","\n">>

\* generate_openapi lines 375-382: the part appended when existing_spec is truthy
\* (existing_spec is Nothing for None, Some(text) for a str)
ExistingSpecPart(existing_spec) ==
    IF existing_spec.some /\ existing_spec.val # <<>>
    THEN << EXISTING_SPEC_HEADER
            \o <<"B","e","l","o","w"," ","i","s"," ","t","h","e"," ","c","u","r","r","e","n","t"," ","o","p","e","n","a","p","i",".","y","a","m","l","."," ","P","r","e","s","e","r","v","e"," ","a","n","y"," ","m","a","n","u","a","l","l","y"," ","a","d","d","e","d"," ">>
            \o <<"d","e","s","c","r","i","p","t","i","o","n","s",","," ","e","x","a","m","p","l","e","s",","," ","a","n","d"," ","d","o","c","u","m","e","n","t","a","t","i","o","n","."," ","U","p","d","a","t","e"," ","e","n","d","p","o","i","n","t","s"," ","a","n","d"," ">>
            \o <<"s","c","h","e","m","a","s"," ","b","a","s","e","d"," ","o","n"," ","t","h","e"," ","c","u","r","r","e","n","t"," ","c","o","d","e","b","a","s","e",".","\n","\n">>
            \o <<"backtick","backtick","backtick","y","a","m","l","\n">> \o ExistingSpecExcerpt(existing_spec.val) \o <<"\n","backtick","backtick","backtick">> >>
    ELSE <<>>

\* generate_openapi lines 370-389: the messages.create call it issues
OpenapiRequest(model, context, existing_spec) ==
    [model |-> model,
     max_tokens |-> MAX_TOKENS,
     system |-> "OPENAPI_SYSTEM_PROMPT",
     content |-> Join(<<"\n">>,
        << <<"G","e","n","e","r","a","t","e"," ","a","n"," ","O","p","e","n","A","P","I"," ","3",".","1",".","1"," ","s","p","e","c","i","f","i","c","a","t","i","o","n"," ","f","o","r"," ","t","h","e"," ","p","r","o","j","e","c","t",":"," ">>
               \o context.project_name \o <<"\n">>,
           ToPromptContext(context) >>
        \o ExistingSpecPart(existing_spec))]

\* Faulty variant of line 421: the slice is one character short
ShortYamlExcerpt(openapi_yaml) == Take(openapi_yaml, OPENAPI_YAML_CAP - 1)

\* generate_endpoint_docs line 421: the excerpt of the generated spec
OpenapiYamlExcerpt(openapi_yaml) == Take(openapi_yaml, OPENAPI_YAML_CAP)

\* generate_endpoint_docs lines 427-430: existing docs, in the order given
RECURSIVE ExistingDocParts(_)
ExistingDocParts(docs) ==
    IF docs = <<>> THEN <<>>
    ELSE << <<"\n","-","-","-"," ","E","X","I","S","T","I","N","G",":"," ">> \o docs[1][1] \o <<" ","-","-","-","\n">>
            \o Take(docs[1][2], EXISTING_DOC_CAP) \o <<"\n">> >>
         \o ExistingDocParts(Tail(docs))

\* generate_endpoint_docs lines 418-437: the messages.create call it issues
\* (existing_docs is the dict's items in order; empty stands for None too)
EndpointDocsRequest(model, context, openapi_yaml, existing_docs) ==
    [model |-> model,
     max_tokens |-> MAX_TOKENS,
     system |-> "ENDPOINT_DOC_SYSTEM_PROMPT",
     content |-> Join(<<"\n">>,
        << <<"G","e","n","e","r","a","t","e"," ","c","o","m","p","r","e","h","e","n","s","i","v","e"," ","p","e","r","-","e","n","d","p","o","i","n","t"," ","d","o","c","u","m","e","n","t","a","t","i","o","n"," ","f","o","r"," ","t","h","e","s","e"," ","A","P","I"," ","e","n","d","p","o","i","n","t","s",".","\n","\n">>,
           <<"#","#"," ","O","p","e","n","A","P","I"," ","S","p","e","c","i","f","i","c","a","t","i","o","n","\n","backtick","backtick","backtick","y","a","m","l","\n">>,
           OpenapiYamlExcerpt(openapi_yaml),
           <<"\n","backtick","backtick","backtick","\n","\n">>,
           <<"#","#"," ","S","o","u","r","c","e"," ","C","o","d","e"," ","C","o","n","t","e","x","t","\n">>,
           ToPromptContext(context) >>
        \o (IF existing_docs # <<>>
            THEN << <<"\n","#","#"," ","E","x","i","s","t","i","n","g"," ","E","n","d","p","o","i","n","t"," ","D","o","c","s"," ","(","p","r","e","s","e","r","v","e"," ","m","a","n","u","a","l"," ","a","d","d","i","t","i","o","n","s",")","\n">> >>
                 \o ExistingDocParts(existing_docs)
            ELSE <<>>))]

\* The regular expression ---\s*FILE:\s*(.+?\.md)\s*--- at index i of t.
\* \s* before a literal that is not whitespace takes the whole run; the \s*
\* before the group is greedy and gives back; .+? is lazy and . is any
\* character but a newline.
NoNewline(t, a, b) == \A k \in a..b : t[k] # "\n"

GroupEnds(t, g) ==
    {e \in (g + 1)..Len(t) : /\ NoNewline(t, g, e - 1)
                             /\ IsAt(t, e, <<".","m","d">>)
                             /\ IsAt(t, FirstNonWs(t, e + 3), <<"-","-","-">>)}

GroupStarts(t, i) ==
    LET a == FirstNonWs(t, i + 3)
    IN  IF IsAt(t, i, <<"-","-","-">>) /\ IsAt(t, a, <<"F","I","L","E",":">>)
        THEN {g \in (a + 5)..FirstNonWs(t, a + 5) : GroupEnds(t, g) # {}}
        ELSE {}

DelimiterAt(t, i) ==
    LET g == CHOOSE x \in GroupStarts(t, i) : \A y \in GroupStarts(t, i) : y <= x
        e == CHOOSE x \in GroupEnds(t, g) : \A y \in GroupEnds(t, g) : x <= y
    IN  [group |-> SubSeq(t, g, e + 2), next |-> FirstNonWs(t, e + 3) + 3]

\* re.split(pattern, text) from index pos on: text, group, text, group, ..., text
RECURSIVE ReSplit(_, _)
ReSplit(t, pos) ==
    LET found == {i \in pos..Len(t) : GroupStarts(t, i) # {}}
    IN  IF found = {} THEN << Drop(t, pos - 1) >>
        ELSE LET i == CHOOSE x \in found : \A y \in found : x <= y
                 m == DelimiterAt(t, i)
             IN  << SubSeq(t, pos, i - 1), m.group >> \o ReSplit(t, m.next)

\* Faulty variant of the loop: a pair with empty content is emitted too
RECURSIVE EveryPair(_, _)
EveryPair(parts, i) ==
    IF ~(i < Len(parts) - 1) THEN <<>>
    ELSE << <<Strip(parts[i + 1]), Strip(parts[i + 2])>> >> \o EveryPair(parts, i + 2)

\* The loop of _parse_endpoint_docs from (0-based) index i of parts
RECURSIVE DocPairs(_, _)
DocPairs(parts, i) ==
    IF ~(i < Len(parts) - 1) THEN <<>>
    ELSE LET filename == Strip(parts[i + 1])
             content == Strip(parts[i + 2])
         IN  (IF filename # <<>> /\ content # <<>> THEN << <<filename, content>> >> ELSE <<>>)
             \o DocPairs(parts, i + 2)

\* _parse_endpoint_docs(text)
ParseEndpointDocs(text) == DocPairs(ReSplit(text, 1), 1)

\* yaml.safe_load of the texts of the model (PyYAML is not part of the
\* repository): what it returns, or the exception it raises.
Y_VALID == <<"o","p","e","n","a","p","i",":"," ","3",".","1",".","1","\n","i","n","f","o",":"," ","x">>
Y_NO_KEY == <<"t","i","t","l","e",":"," ","t","e","s","t","\n","v","e","r","s","i","o","n",":"," ","1">>
Y_BROKEN == <<"n","o","t",":"," ","v","a","l","i","d",":"," ","y","a","m","l",":"," ","[","[","[">>
Y_LIST == <<"-"," ","a","\n","-"," ","b">>
Y_BAD_DATE == <<"o","p","e","n","a","p","i",":"," ","3",".","1",".","1","\n","x",":"," ","2","0","0","1","-","1","3","-","4","0">>
Y_SCALAR == <<"o","p","e","n","a","p","i">>
Y_INT == <<"4","2">>

SafeLoad(text) ==
    CASE text = Y_VALID -> [kind |-> "dict", keys |-> {"openapi", "info"}]
      [] text = Y_NO_KEY -> [kind |-> "dict", keys |-> {"title", "version"}]
      [] text = Y_BROKEN -> [kind |-> "YAMLError", keys |-> {}]
      [] text = Y_LIST -> [kind |-> "list", keys |-> {}]
      [] text = Y_BAD_DATE -> [kind |-> "ValueError", keys |-> {}]
      [] text = <<>> -> [kind |-> "NoneType", keys |-> {}]
      [] text = Y_INT -> [kind |-> "int", keys |-> {}]
      [] OTHER -> [kind |-> "str", keys |-> {}]

\* validate_openapi_yaml(text): only yaml.YAMLError is caught
ValidateOpenapiYaml(text) ==
    LET data == SafeLoad(text)
    IN  IF data.kind = "YAMLError" THEN Ok(FALSE)
        ELSE IF data.kind \in {"ValueError"} THEN Raise(data.kind)
        ELSE Ok(data.kind = "dict" /\ "openapi" \in data.keys)

----------------------------------------------------------------------------
(* The command (commands/openapi.py) *)

OPENAPI_DIR == << <<".","o","p","e","n","a","p","i">> >>
OPENAPI_PATH == << <<".","o","p","e","n","a","p","i">>, <<"o","p","e","n","a","p","i",".","y","a","m","l">> >>
ENDPOINTS_DIR == << <<".","o","p","e","n","a","p","i">>, <<"e","n","d","p","o","i","n","t","s">> >>

\* The default of --model
MODEL == "claude-sonnet-4-20250514"

\* Faulty variant of the truth test: None and "" pass for a key
AlwaysTruthy(a) == TRUE

\* Faulty variant of line 88: dry_run is ignored
NeverReturnsEarly(dry_run) == FALSE

\* commands/openapi.py line 88: a dry run returns after printing
DryRunReturns(dry_run) == dry_run

\* bool(a) and a or b, for str | None
Truthy(a) == a # None /\ a # ""
OrElse(a, b) == IF Truthy(a) THEN a ELSE b

\* RECURSIVE helper: every prefix of a path, the root included
RECURSIVE Prefixes(_)
Prefixes(p) == IF p = <<>> THEN {<<>>} ELSE {p} \cup Prefixes(SubSeq(p, 1, Len(p) - 1))

\* The files written so far by an invocation: the filesystem it leaves, the
\* targets it wrote in order, and the exception that stopped it (None if none).
WriteState(f, d, o, w, e) == [fs |-> f, dirs |-> d, outside |-> o, written |-> w, exc |-> e]

\* Path.mkdir(parents=True, exist_ok=True) of a path below the root
Mkdir(s, p) ==
    IF s.exc # None THEN s
    ELSE IF \E q \in Prefixes(p) : q \in DOMAIN s.fs THEN [s EXCEPT !.exc = "OSError"]
    ELSE [s EXCEPT !.dirs = s.dirs \cup Prefixes(p)]

\* The file a write_text leaves at a location inside the root
PutFile(f, p, content) ==
    [q \in DOMAIN f \cup {p} |-> IF q = p THEN [content |-> content, mode |-> "ok"] ELSE f[q]]

PutOutside(o, a, content) ==
    [q \in DOMAIN o \cup {a} |-> IF q = a THEN content ELSE o[q]]

\* (base / name).write_text(content): the operating system resolves the path;
\* a missing parent directory or a directory at the target raises OSError
WriteText(s, base, name, content) ==
    IF s.exc # None THEN s
    ELSE LET at == Locate(s.dirs, base, name)
         IN  IF at.exc # None THEN [s EXCEPT !.exc = at.exc]
             ELSE IF IsDirAbs(s.dirs, at.val) THEN [s EXCEPT !.exc = "OSError"]
             ELSE IF InsideRoot(at.val)
                  THEN [s EXCEPT !.fs = PutFile(s.fs, Rel(at.val), content),
                                 !.written = Append(s.written, at.val)]
                  ELSE [s EXCEPT !.outside = PutOutside(s.outside, at.val, content),
                                 !.written = Append(s.written, at.val)]

\* commands/openapi.py lines 104-105: one write per (fname, content), in order
RECURSIVE WriteDocs(_, _)
WriteDocs(s, endpoint_docs) ==
    IF endpoint_docs = <<>> \/ s.exc # None THEN s
    ELSE WriteDocs(WriteText(s, ENDPOINTS_DIR, endpoint_docs[1][1], endpoint_docs[1][2]),
                   Tail(endpoint_docs))

\* commands/openapi.py step 11: write files
WriteFiles(yaml_content, endpoint_docs) ==
    LET s0 == WriteState(fs, dirs, outside, written, None)
        s1 == WriteText(Mkdir(s0, OPENAPI_DIR), <<>>, PathStr(OPENAPI_PATH), yaml_content)
    IN  IF endpoint_docs # <<>> THEN WriteDocs(Mkdir(s1, ENDPOINTS_DIR), endpoint_docs)
        ELSE s1

\* commands/openapi.py lines 79-81: the entries endpoints_dir.glob("*.md") yields
ExistingDocPaths ==
    IF IsDir(ENDPOINTS_DIR)
    THEN {p \in Entries : /\ Len(p) = Len(ENDPOINTS_DIR) + 1
                          /\ IsPrefix(ENDPOINTS_DIR, p)
                          /\ FnMatch(p[Len(p)], <<"*",".","m","d">>)}
    ELSE {}

\* Every order in which a directory listing may yield the paths of S
RECURSIVE Orders(_)
Orders(S) ==
    IF S = {} THEN {<<>>}
    ELSE UNION {{<<x>> \o rest : rest \in Orders(S \ {x})} : x \in S}

\* existing_docs[md_file.name] = md_file.read_text(), for the paths in order;
\* no read error is caught
RECURSIVE ReadDocs(_)
ReadDocs(paths) ==
    IF paths = <<>> THEN Ok(<<>>)
    ELSE LET r == ReadText(Head(paths))
         IN  IF r.exc # None THEN r
             ELSE LET rest == ReadDocs(Tail(paths))
                  IN  IF rest.exc # None THEN rest
                      ELSE Ok(<< <<Head(paths)[Len(Head(paths))], r.val>> >> \o rest.val)

Some(v) == [some |-> TRUE, val |-> v]
Nothing == [some |-> FALSE, val |-> <<>>]

Say(msg) == [msg |-> msg, text |-> <<>>]
Show(msg, text) == [msg |-> msg, text |-> text]

EmptyContext ==
    [project_name |-> <<>>, project_structure |-> <<>>, package_info |-> <<>>,
     route_files |-> <<>>, schema_files |-> <<>>, middleware_files |-> <<>>,
     config_files |-> <<>>, extra_files |-> <<>>,
     endpoint_count |-> 0, schema_count |-> 0, has_api_code |-> FALSE]

\* The locals of openapi() before any is assigned
NoLocals ==
    [is_update |-> FALSE, context |-> EmptyContext, existing_spec |-> Nothing,
     yaml_content |-> <<>>, valid |-> FALSE, existing_docs |-> <<>>,
     endpoint_docs |-> <<>>, exc |-> None]

Header(is_update) == Say(IF is_update THEN "Updating OpenAPI spec" ELSE "Generating OpenAPI spec")

\* What openapi() has printed once the context is gathered: lines 54 and 60-62
Scanned(is_update, context) ==
    <<Header(is_update)>>
    \o (IF ~context.has_api_code
        THEN <<Say("No API-related code detected in this project.")>> ELSE <<>>)

\* openapi(project_root, model, include, dry_run, api_key) up to the first
\* external call: steps 1-6
Invoke(api_key, dry_run, include) ==
    /\ pc = "idle"
    /\ args' = [api_key |-> api_key, dry_run |-> dry_run, include |-> include,
                model |-> MODEL]
    /\ fs0' = [fs |-> fs, dirs |-> dirs, outside |-> outside]
    /\ written' = <<>>
    /\ UNCHANGED <<fs, dirs, outside, trailingFiles, op, ret, environ, installed>>
    /\ LET key == OrElse(api_key, environ)
           is_update == Exists(OPENAPI_PATH)
           existing == IF is_update THEN ReadText(OPENAPI_PATH) ELSE Ok(<<>>)
           existing_spec == IF is_update THEN Some(existing.val) ELSE Nothing
       IN  \E gathered \in {GatherApiContext(include)} :
           IF ~installed
           THEN /\ console' = <<Say("AI dependencies not installed.")>>
                /\ pc' = "exited"
                /\ exit_code' = 1
                /\ loc' = NoLocals
                /\ requests' = <<>>
           ELSE IF ~Truthy(key)
           THEN /\ console' = <<Say("ANTHROPIC_API_KEY not set.")>>
                /\ pc' = "exited"
                /\ exit_code' = 1
                /\ loc' = NoLocals
                /\ requests' = <<>>
           ELSE IF gathered.exc # None
           THEN /\ console' = <<Header(is_update)>>
                /\ pc' = "raised"
                /\ exit_code' = 1
                /\ loc' = [NoLocals EXCEPT !.is_update = is_update, !.exc = gathered.exc]
                /\ requests' = <<>>
           ELSE IF existing.exc # None
           THEN /\ console' = Scanned(is_update, gathered.val)
                /\ pc' = "raised"
                /\ exit_code' = 1
                /\ loc' = [NoLocals EXCEPT !.is_update = is_update,
                                           !.context = gathered.val, !.exc = existing.exc]
                /\ requests' = <<>>
           ELSE /\ console' = Scanned(is_update, gathered.val)
                /\ pc' = "generate_openapi"
                /\ exit_code' = None
                /\ loc' = [NoLocals EXCEPT !.is_update = is_update,
                                           !.context = gathered.val,
                                           !.existing_spec = existing_spec]
                /\ requests' = <<OpenapiRequest(MODEL, gathered.val, existing_spec)>>

\* The first external call returns text: steps 6-9, up to the second call
SpecResponse(text) ==
    /\ pc = "generate_openapi"
    /\ UNCHANGED <<fs, dirs, outside, trailingFiles, op, ret, args, environ, installed,
                   fs0, written>>
    /\ \E yaml_content \in {StripYamlFences(text)} :
       LET valid == ValidateOpenapiYaml(yaml_content)
           warned == IF valid.exc = None /\ ~valid.val
                     THEN Append(console,
                                 Say("Generated YAML may not be valid OpenAPI. Writing anyway."))
                     ELSE console
       IN  IF valid.exc # None
           THEN /\ pc' = "raised"
                /\ exit_code' = 1
                /\ loc' = [loc EXCEPT !.yaml_content = yaml_content, !.exc = valid.exc]
                /\ UNCHANGED <<console, requests>>
           ELSE \E order \in Orders(ExistingDocPaths) :
                  LET docs == ReadDocs(order)
                  IN  IF docs.exc # None
                      THEN /\ pc' = "raised"
                           /\ exit_code' = 1
                           /\ loc' = [loc EXCEPT !.yaml_content = yaml_content,
                                                 !.valid = valid.val, !.exc = docs.exc]
                           /\ console' = warned
                           /\ UNCHANGED requests
                      ELSE /\ pc' = "generate_endpoint_docs"
                           /\ exit_code' = None
                           /\ loc' = [loc EXCEPT !.yaml_content = yaml_content,
                                                 !.valid = valid.val,
                                                 !.existing_docs = docs.val]
                           /\ console' = warned
                           /\ requests' = Append(requests,
                                EndpointDocsRequest(args.model, loc.context, yaml_content,
                                                    docs.val))

\* Faulty variant of the failing call: the spec is written before the call
\* for the endpoint docs is made, so its failure leaves the spec file behind
FailureAfterWrite ==
    /\ pc \in {"generate_openapi", "generate_endpoint_docs"}
    /\ pc' = "raised"
    /\ exit_code' = 1
    /\ loc' = [loc EXCEPT !.exc = "APIError"]
    /\ \E s \in {IF pc = "generate_endpoint_docs" THEN WriteFiles(loc.yaml_content, <<>>)
                  ELSE WriteState(fs, dirs, outside, written, None)} :
         /\ fs' = s.fs
         /\ dirs' = s.dirs
         /\ outside' = s.outside
         /\ written' = s.written
    /\ UNCHANGED <<trailingFiles, op, ret, args, environ, installed, fs0, requests, console>>

\* An external call raises (network, auth, rate limit): nothing catches it
CallFailure ==
    /\ pc \in {"generate_openapi", "generate_endpoint_docs"}
    /\ pc' = "raised"
    /\ exit_code' = 1
    /\ loc' = [loc EXCEPT !.exc = "APIError"]
    /\ UNCHANGED <<fs, dirs, outside, trailingFiles, op, ret, args, environ, installed,
                   fs0, requests, written, console>>

\* The second external call returns text: steps 9-12
DocsResponse(text) ==
    /\ pc = "generate_endpoint_docs"
    /\ UNCHANGED <<trailingFiles, op, ret, args, environ, installed, fs0, requests>>
    /\ \E endpoint_docs \in {ParseEndpointDocs(text)} :
         IF DryRunReturns(args.dry_run)
         THEN /\ console' = console \o <<Show("Generated openapi.yaml:", loc.yaml_content)>>
                              \o [i \in 1..Len(endpoint_docs) |->
                                      Show(endpoint_docs[i][1], endpoint_docs[i][2])]
              /\ pc' = "done"
              /\ exit_code' = 0
              /\ loc' = [loc EXCEPT !.endpoint_docs = endpoint_docs]
              /\ UNCHANGED <<fs, dirs, outside, written>>
         ELSE \E s \in {WriteFiles(loc.yaml_content, endpoint_docs)} :
              /\ fs' = s.fs
              /\ dirs' = s.dirs
              /\ outside' = s.outside
              /\ written' = s.written
              /\ loc' = [loc EXCEPT !.endpoint_docs = endpoint_docs, !.exc = s.exc]
              /\ IF s.exc # None
                 THEN /\ pc' = "raised"
                      /\ exit_code' = 1
                      /\ console' = console
                 ELSE /\ pc' = "done"
                      /\ exit_code' = 0
                      /\ console' = Append(console,
                                       Say(IF loc.is_update THEN "Updated" ELSE "Created"))

----------------------------------------------------------------------------
(* The command as a state machine: project trees, arguments and responses  *)

\* One file of a project tree
F(path, content, mode) == [path |-> Split(path, "/"), content |-> content, mode |-> mode]

\* A filesystem from a set of files with distinct paths, and the directories it needs
MakeFs(files) ==
    [p \in {f.path : f \in files} |->
        LET f == CHOOSE g \in files : g.path = p
        IN  [content |-> f.content, mode |-> f.mode]]

DirsOf(paths) == {<<>>} \cup UNION {Prefixes(SubSeq(p, 1, Len(p) - 1)) : p \in paths}

\* A text of n characters in which the first character occurs once
Filler(n) == [i \in 1..n |-> IF i = 1 THEN "Q" ELSE "a"]

\* Project sources the command is run on
P_EMPTY == {}
P_EXPRESS == {
    F(<<"p","a","c","k","a","g","e",".","j","s","o","n">>, <<"{","\"","d","e","p","e","n","d","e","n","c","i","e","s","\"",":"," ","{","\"","e","x","p","r","e","s","s","\"",":"," ","\"","4","\"","}","}">>, "ok"),
    F(<<"s","r","c","/","r","o","u","t","e","s","/","u","s","e","r","s",".","t","s">>, <<"r","o","u","t","e","r",".","g","e","t","(","'","/","a","p","i","/","u","s","e","r","s","'",","," ","l","i","s","t",")">>, "ok"),
    F(<<"R","E","A","D","M","E",".","m","d">>, <<"#"," ","U","s","e","r","s"," ","A","P","I">>, "ok") }
P_LOCKED == {
    F(<<"p","a","c","k","a","g","e",".","j","s","o","n">>, <<"{","}">>, "OSError"),
    F(<<"R","E","A","D","M","E",".","m","d">>, <<"#"," ","U","s","e","r","s"," ","A","P","I">>, "ok") }

Projects == {P_EMPTY, P_EXPRESS, P_LOCKED}

\* What .openapi holds before the invocation
LONG_SPEC == Filler(EXISTING_SPEC_CAP) \o <<"Z">>
OLD_DOC == <<"#"," ","G","E","T"," ","/","a","p","i","/","u","s","e","r","s","\n","h","a","n","d","-","w","r","i","t","t","e","n"," ","n","o","t","e","s">>
STALE_DOC == <<"#"," ","D","E","L","E","T","E"," ","/","a","p","i","/","u","s","e","r","s">>

O_NONE == {}
O_SPEC == { F(<<".","o","p","e","n","a","p","i","/","o","p","e","n","a","p","i",".","y","a","m","l">>, Y_VALID, "ok") }
O_LONG == { F(<<".","o","p","e","n","a","p","i","/","o","p","e","n","a","p","i",".","y","a","m","l">>, LONG_SPEC, "ok") }
O_BLANK == { F(<<".","o","p","e","n","a","p","i","/","o","p","e","n","a","p","i",".","y","a","m","l">>, <<>>, "ok") }
O_BINARY == { F(<<".","o","p","e","n","a","p","i","/","o","p","e","n","a","p","i",".","y","a","m","l">>, <<>>, "UnicodeDecodeError") }
O_DOCS == { F(<<".","o","p","e","n","a","p","i","/","o","p","e","n","a","p","i",".","y","a","m","l">>, Y_VALID, "ok"),
            F(<<".","o","p","e","n","a","p","i","/","e","n","d","p","o","i","n","t","s","/","g","e","t","-","a","p","i","-","u","s","e","r","s",".","m","d">>, OLD_DOC, "ok"),
            F(<<".","o","p","e","n","a","p","i","/","e","n","d","p","o","i","n","t","s","/","d","e","l","e","t","e","-","a","p","i","-","u","s","e","r","s",".","m","d">>, STALE_DOC, "ok") }
O_ONLY_DOCS == { F(<<".","o","p","e","n","a","p","i","/","e","n","d","p","o","i","n","t","s","/","g","e","t","-","a","p","i","-","u","s","e","r","s",".","m","d">>, OLD_DOC, "ok") }

Outputs == {O_NONE, O_SPEC, O_LONG, O_BLANK, O_BINARY, O_DOCS, O_ONLY_DOCS}

\* --api-key, ANTHROPIC_API_KEY, --include
ApiKeys == {None, "", "sk-arg"}
EnvKeys == {None, "sk-env"}
Includes == { <<>>, << <<"R","E","A","D","M","E",".","m","d">> >> }

\* Texts the first external call may return
R_FENCED == <<"backtick","backtick","backtick","y","a","m","l","\n">> \o Y_VALID \o <<"\n","backtick","backtick","backtick">>
R_LONG == Filler(OPENAPI_YAML_CAP) \o <<"Z">>
SpecResponses == {R_FENCED, Y_NO_KEY, Y_BROKEN, Y_BAD_DATE, R_LONG, <<>>}

\* Texts the second external call may return
D_NONE == <<"N","o"," ","e","n","d","p","o","i","n","t","s"," ","f","o","u","n","d",".">>
D_ONE == <<"-","-","-"," ","F","I","L","E",":"," ","g","e","t","-","a","p","i","-","u","s","e","r","s",".","m","d"," ","-","-","-","\n","#"," ","G","E","T"," ","/","a","p","i","/","u","s","e","r","s","\n">>
D_TWO == <<"i","n","t","r","o","\n","-","-","-"," ","F","I","L","E",":"," ","g","e","t","-","a","p","i","-","u","s","e","r","s",".","m","d"," ","-","-","-","\n","#"," ","G","E","T"," ","/","a","p","i","/","u","s","e","r","s","\n","\n","-","-","-"," ","F","I","L","E",":"," ","p","o","s","t","-","a","p","i","-","u","s","e","r","s",".","m","d"," ","-","-","-","\n","#"," ","P","O","S","T"," ","/","a","p","i","/","u","s","e","r","s","\n">>
D_PARENT == <<"-","-","-"," ","F","I","L","E",":"," ",".",".","/","g","e","t","-","x",".","m","d"," ","-","-","-","\n","#"," ","G","E","T"," ","/","x">>
D_SUBDIR == <<"-","-","-"," ","F","I","L","E",":"," ","s","u","b","/","g","e","t","-","x",".","m","d"," ","-","-","-","\n","#"," ","G","E","T"," ","/","x">>
D_ABSOLUTE == <<"-","-","-"," ","F","I","L","E",":"," ","/","s","r","v","/","g","e","t","-","x",".","m","d"," ","-","-","-","\n","#"," ","G","E","T"," ","/","x">>
D_ESCAPE == <<"-","-","-"," ","F","I","L","E",":"," ",".",".","/",".",".","/",".",".","/","g","e","t","-","x",".","m","d"," ","-","-","-","\n","#"," ","G","E","T"," ","/","x">>
D_ALIAS == <<"-","-","-"," ","F","I","L","E",":"," ",".",".","/","e","n","d","p","o","i","n","t","s","/","d","e","l","e","t","e","-","a","p","i","-","u","s","e","r","s",".","m","d"," ","-","-","-","\n","#"," ","D","E","L","E","T","E"," ","/","a","p","i","/","u","s","e","r","s"," ","(","v","2",")">>
D_TWICE == <<"-","-","-"," ","F","I","L","E",":"," ","g","e","t","-","a","p","i","-","u","s","e","r","s",".","m","d"," ","-","-","-","\n","f","i","r","s","t","\n","-","-","-"," ","F","I","L","E",":"," ","g","e","t","-","a","p","i","-","u","s","e","r","s",".","m","d"," ","-","-","-","\n","s","e","c","o","n","d">>
DocResponses == {D_NONE, D_ONE, D_TWO, D_PARENT, D_SUBDIR, D_ABSOLUTE, D_ESCAPE, D_ALIAS,
                 D_TWICE}

NoCall == [fn |-> None]

Init ==
    /\ \E project \in Projects, output \in Outputs :
         /\ fs = MakeFs(project \cup output)
         /\ dirs = DirsOf({f.path : f \in project \cup output})
    /\ outside = << >>
    /\ trailingFiles \in BOOLEAN
    /\ op = NoCall
    /\ ret = Ok(<<>>)
    /\ pc = "idle"
    /\ args = [api_key |-> None, dry_run |-> FALSE, include |-> <<>>, model |-> MODEL]
    /\ environ \in EnvKeys
    /\ installed \in BOOLEAN
    /\ fs0 = [fs |-> fs, dirs |-> dirs, outside |-> outside]
    /\ loc = NoLocals
    /\ requests = <<>>
    /\ written = <<>>
    /\ console = <<>>
    /\ exit_code = None

Next ==
    \/ \E api_key \in ApiKeys, dry_run \in BOOLEAN, include \in Includes :
           Invoke(api_key, dry_run, include)
    \/ \E text \in SpecResponses : SpecResponse(text)
    \/ \E text \in DocResponses : DocsResponse(text)
    \/ CallFailure

Spec == Init /\ [][Next]_vars

----------------------------------------------------------------------------
(* The scanning functions applied to project trees *)

\* Largest number of files in a project tree
MaxTreeFiles == 2

\* A max_files below every role's default
SmallMax == 1

\* A per_file_cap below the default
SmallCap == 5

LONG_SOURCE == Filler(PER_FILE_CAP) \o <<"Z">>

\* The files a project tree is drawn from.  A path occurs with several
\* contents and modes; a tree has each path at most once.
Candidates == {
    F(<<"p","a","c","k","a","g","e",".","j","s","o","n">>, <<"{","\"","d","e","p","e","n","d","e","n","c","i","e","s","\"",":"," ","{","\"","n","e","x","t","\"",":"," ","\"","1","4","\"",","," ","\"","E","x","p","r","e","s","s","\"",":"," ","\"","4","\"","}","}">>, "ok"),
    F(<<"p","a","c","k","a","g","e",".","j","s","o","n">>, <<"{","\"","n","a","m","e","\"",":"," ","\"","t","o","o","l","s","\"","}">>, "ok"),
    F(<<"p","a","c","k","a","g","e",".","j","s","o","n">>, <<"{","\"","d","e","p","e","n","d","e","n","c","i","e","s","\"",":"," ","{","\"","e","x","p","r","e","s","s","\"",":"," ","\"","4","\"","}","}">>, "OSError"),
    F(<<"p","a","c","k","a","g","e",".","j","s","o","n">>, <<>>, "UnicodeDecodeError"),
    F(<<"p","y","p","r","o","j","e","c","t",".","t","o","m","l">>, <<"d","e","p","e","n","d","e","n","c","i","e","s"," ","="," ","[","\"","F","l","a","s","k","\"",","," ","\"","d","j","a","n","g","o","\"","]">>, "ok"),
    F(<<"r","e","q","u","i","r","e","m","e","n","t","s",".","t","x","t">>, <<"f","a","s","t","a","p","i","=","=","0",".","1">>, "ok"),
    F(<<"s","r","c","/","r","o","u","t","e","s","/","u","s","e","r","s",".","t","s">>, <<"r","o","u","t","e","r",".","g","e","t","(","'","/","u","s","e","r","s","'",","," ","l","i","s","t",")">>, "ok"),
    F(<<"s","r","c","/","r","o","u","t","e","s","/","u","s","e","r","s",".","t","s">>, <<"r","o","u","t","e","r",".","g","e","t","(","'","/","u","s","e","r","s","'",","," ","l","i","s","t",")">>, "OSError"),
    F(<<"s","r","c","/","r","o","u","t","e","s","/","u","s","e","r","s",".","t","s">>, <<>>, "UnicodeDecodeError"),
    F(<<"s","r","c","/","r","o","u","t","e","s","/","b","i","g",".","t","s">>, LONG_SOURCE, "ok"),
    F(<<"s","r","c","/","u","s","e","r",".","r","o","u","t","e","r",".","t","s">>, <<"r","o","u","t","e","r",".","p","o","s","t","(","'","/","u","s","e","r","s","'",","," ","c","r","e","a","t","e",")">>, "ok"),
    F(<<"n","o","d","e","_","m","o","d","u","l","e","s","/","x","/","r","o","u","t","e","s","/","x",".","r","o","u","t","e","r",".","j","s">>, <<"r","o","u","t","e","r",".","g","e","t","(","'","/","x","'",")">>, "ok"),
    F(<<"s","r","c","/","a","u","t","h",".","m","i","d","d","l","e","w","a","r","e",".","t","s">>, <<"e","x","p","o","r","t"," ","f","u","n","c","t","i","o","n"," ","a","u","t","h","(",")"," ","{","}">>, "ok"),
    F(<<"s","r","c","/","m","o","d","e","l","s","/","u","s","e","r",".","d","t","o",".","t","s">>, <<"e","x","p","o","r","t"," ","c","l","a","s","s"," ","U","s","e","r","D","t","o"," ","{","}">>, "ok"),
    F(<<".","e","n","v",".","e","x","a","m","p","l","e">>, <<"P","O","R","T","=","3","0","0","0">>, "ok"),
    F(<<"R","E","A","D","M","E",".","m","d">>, <<"#"," ","U","s","e","r","s"," ","A","P","I">>, "ok") }

Trees == {t \in SUBSET Candidates :
            /\ Cardinality(t) <= MaxTreeFiles
            /\ \A f, g \in t : f.path = g.path => f = g}

\* A path that was listed and is gone when it is read
GONE == Split(<<"s","r","c","/","r","o","u","t","e","s","/","g","o","n","e",".","t","s">>, "/")

Roles == {"routes", "schemas", "middleware", "config"}

\* The pattern list gather_api_context passes to _glob_files for a role
RolePatterns(role, framework) ==
    CASE role = "routes" -> ROUTE_PATTERNS(framework) \o GENERIC_ROUTE_PATTERNS
      [] role = "schemas" -> SCHEMA_PATTERNS(framework) \o GENERIC_SCHEMA_PATTERNS
      [] role = "middleware" -> MIDDLEWARE_PATTERNS
      [] role = "config" -> CONFIG_PATTERNS

\* The max_files gather_api_context passes for a role
RoleMax(role) ==
    CASE role = "middleware" -> MAX_FILES_MIDDLEWARE
      [] role = "config" -> MAX_FILES_CONFIG
      [] OTHER -> MAX_FILES_DEFAULT

GlobCalls ==
    {[role |-> role, framework |-> fw, max_files |-> RoleMax(role)] :
        role \in Roles, fw \in {"unknown"}}
    \cup {[role |-> "routes", framework |-> "express", max_files |-> m] :
            m \in {SmallMax, MAX_FILES_DEFAULT}}
    \cup {[role |-> "routes", framework |-> "unknown", max_files |-> SmallMax]}

ScanIncludes == { <<>>, << <<"R","E","A","D","M","E",".","m","d">>, <<"s","r","c","/","r","o","u","t","e","s","/","u","s","e","r","s",".","t","s">> >>,
                  << <<"n","o","d","e","_","m","o","d","u","l","e","s","/","x","/","r","o","u","t","e","s","/","x",".","r","o","u","t","e","r",".","j","s">> >> }

Call(fn, patterns, max_files, paths, per_file_cap, include) ==
    [fn |-> fn, patterns |-> patterns, max_files |-> max_files, paths |-> paths,
     per_file_cap |-> per_file_cap, include |-> include]

ScanFrame == UNCHANGED <<fs, dirs, outside, trailingFiles, pc, args, environ, installed,
                         fs0, loc, requests, written, console, exit_code>>

CallDetectFramework ==
    /\ op = NoCall
    /\ op' = Call("_detect_framework", <<>>, 0, <<>>, 0, <<>>)
    /\ ret' = DetectFramework
    /\ ScanFrame

CallReadManifests ==
    /\ op = NoCall
    /\ op' = Call("_read_manifests", <<>>, 0, <<>>, 0, <<>>)
    /\ ret' = ReadManifests
    /\ ScanFrame

CallBuildTree ==
    /\ op = NoCall
    /\ op' = Call("_build_tree", <<>>, 0, <<>>, 0, <<>>)
    /\ ret' = Ok(BuildTree)
    /\ ScanFrame

CallGlobFiles(patterns, max_files) ==
    /\ op = NoCall
    /\ op' = Call("_glob_files", patterns, max_files, <<>>, 0, <<>>)
    /\ ret' = Ok(GlobFiles(patterns, max_files))
    /\ ScanFrame

CallReadFiles(paths, per_file_cap) ==
    /\ op = NoCall
    /\ op' = Call("_read_files", <<>>, 0, paths, per_file_cap, <<>>)
    /\ ret' = ReadFiles(paths, per_file_cap)
    /\ ScanFrame

CallGatherApiContext(include) ==
    /\ op = NoCall
    /\ op' = Call("gather_api_context", <<>>, 0, <<>>, 0, include)
    /\ ret' = GatherApiContext(include)
    /\ ScanFrame

InitScan ==
    /\ \E tree \in Trees :
         /\ fs = MakeFs(tree)
         /\ dirs = DirsOf({f.path : f \in tree})
    /\ outside = << >>
    /\ trailingFiles \in BOOLEAN
    /\ op = NoCall
    /\ ret = Ok(<<>>)
    /\ pc = "scan"
    /\ args = [api_key |-> None, dry_run |-> FALSE, include |-> <<>>, model |-> MODEL]
    /\ environ = None
    /\ installed = TRUE
    /\ fs0 = [fs |-> fs, dirs |-> dirs, outside |-> outside]
    /\ loc = NoLocals
    /\ requests = <<>>
    /\ written = <<>>
    /\ console = <<>>
    /\ exit_code = None

NextScan ==
    \/ CallDetectFramework
    \/ CallReadManifests
    \/ CallBuildTree
    \/ \E c \in GlobCalls : CallGlobFiles(RolePatterns(c.role, c.framework), c.max_files)
    \/ \E cap \in {SmallCap, PER_FILE_CAP} :
         \/ CallReadFiles(SortPaths(DOMAIN fs), cap)
         \/ CallReadFiles(SortPaths(DOMAIN fs \cup {GONE}), cap)
    \/ \E include \in ScanIncludes : CallGatherApiContext(include)

SpecScan == InitScan /\ [][NextScan]_vars

----------------------------------------------------------------------------
(* The text functions applied to response texts, methods and paths *)

\* Largest number of pieces a response text or a path is put together from
MaxPieces == 3

\* Largest number of documents in a rendered endpoint-doc response
MaxDocs == 2

\* The concatenations of at most n of the pieces
RECURSIVE Texts(_, _)
Texts(pieces, n) ==
    IF n = 0 THEN {<<>>}
    ELSE LET shorter == Texts(pieces, n - 1)
         IN  shorter \cup {t \o p : t \in shorter, p \in pieces}

FencePieces == {FENCE, <<"y","a","m","l">>, <<"y","m","l">>, <<"\n">>, <<" ">>, <<"A">>}

FencedTexts == Texts(FencePieces, MaxPieces) \cup {R_FENCED}

PathPieces == {<<"/">>, <<"{">>, <<"}">>, <<"a","p","i">>, <<"I","d">>, <<"9">>, <<"_">>, <<"-">>, <<".">>}

Paths == Texts(PathPieces, MaxPieces)

\* HTTP methods, as the callers may spell them
Methods == {<<"G","E","T">>, <<"p","o","s","t">>, <<"D","e","l","e","t","e">>, <<"V","E","R","S","I","O","N","-","C","O","N","T","R","O","L">>}

YamlTexts == {Y_VALID, Y_NO_KEY, Y_BROKEN, Y_LIST, Y_BAD_DATE, Y_SCALAR, Y_INT, <<>>}

\* Endpoint-doc responses in the expected format: what precedes the first
\* delimiter, then per document its delimiter and its content
DocNames == {<<"g","e","t","-","a","p","i","-","u","s","e","r","s",".","m","d">>, <<"a"," ","b",".","m","d",".","m","d">>}
DocContents == {<<"#"," ","G","E","T"," ","/","a","p","i","/","u","s","e","r","s","\n","\n","L","i","s","t"," ","-","-","-"," ","u","s","e","r","s",".">>, <<"x">>, <<>>, <<" ","\n">>}
DocPrefixes == {<<>>, <<"H","e","r","e"," ","a","r","e"," ","t","h","e"," ","d","o","c","s",":","\n","-","-","-"," ","F","I","L","E",":"," ","n","o","t","e","s"," ","-","-","-","\n">>}

RECURSIVE SeqsUpTo(_, _)
SeqsUpTo(S, n) ==
    IF n = 0 THEN {<<>>}
    ELSE LET shorter == SeqsUpTo(S, n - 1)
         IN  shorter \cup {Append(s, x) : s \in shorter, x \in S}

DocLists == SeqsUpTo({<<name, content>> : name \in DocNames, content \in DocContents}, MaxDocs)

RECURSIVE RenderDocs(_)
RenderDocs(docs) ==
    IF docs = <<>> THEN <<>>
    ELSE <<"-","-","-"," ","F","I","L","E",":"," ">> \o Head(docs)[1] \o <<" ","-","-","-","\n">> \o Head(docs)[2] \o <<"\n">>
         \o RenderDocs(Tail(docs))

CallStripYamlFences(text) ==
    /\ op = NoCall
    /\ op' = [fn |-> "_strip_yaml_fences", text |-> text]
    /\ ret' = Ok(StripYamlFences(text))
    /\ ScanFrame

CallParseEndpointDocs(prefix, docs) ==
    /\ op = NoCall
    /\ op' = [fn |-> "_parse_endpoint_docs", prefix |-> prefix, docs |-> docs,
              text |-> prefix \o RenderDocs(docs)]
    /\ ret' = Ok(ParseEndpointDocs(prefix \o RenderDocs(docs)))
    /\ ScanFrame

CallEndpointSlug(method, path) ==
    /\ op = NoCall
    /\ op' = [fn |-> "_endpoint_slug", method |-> method, path |-> path]
    /\ ret' = Ok(EndpointSlug(method, path))
    /\ ScanFrame

CallValidateOpenapiYaml(text) ==
    /\ op = NoCall
    /\ op' = [fn |-> "validate_openapi_yaml", text |-> text]
    /\ ret' = ValidateOpenapiYaml(text)
    /\ ScanFrame

InitText ==
    /\ fs = << >>
    /\ dirs = {<<>>}
    /\ outside = << >>
    /\ trailingFiles = FALSE
    /\ op = NoCall
    /\ ret = Ok(<<>>)
    /\ pc = "text"
    /\ args = [api_key |-> None, dry_run |-> FALSE, include |-> <<>>, model |-> MODEL]
    /\ environ = None
    /\ installed = TRUE
    /\ fs0 = [fs |-> fs, dirs |-> dirs, outside |-> outside]
    /\ loc = NoLocals
    /\ requests = <<>>
    /\ written = <<>>
    /\ console = <<>>
    /\ exit_code = None

\* One call of one of the functions in a run
NextText ==
    \/ op = NoCall /\ \E text \in FencedTexts : CallStripYamlFences(text)
    \/ op = NoCall /\ \E prefix \in DocPrefixes, docs \in DocLists :
                          CallParseEndpointDocs(prefix, docs)
    \/ op = NoCall /\ \E method \in Methods, path \in Paths : CallEndpointSlug(method, path)
    \/ op = NoCall /\ \E text \in YamlTexts : CallValidateOpenapiYaml(text)

SpecText == InitText /\ [][NextText]_vars

----------------------------------------------------------------------------
(* Properties *)

Unchanged == fs = fs0.fs /\ dirs = fs0.dirs /\ outside = fs0.outside

SPEC_PROMPT == "OPENAPI_SYSTEM_PROMPT"
DOCS_PROMPT == "ENDPOINT_DOC_SYSTEM_PROMPT"

\* Both external calls of the invocation have returned
BothReturned ==
    /\ pc \in {"done", "raised"}
    /\ Len(requests) = 2
    /\ loc.exc # "APIError"

\* C1: when no API key is given by argument and ANTHROPIC_API_KEY is unset, the
\* invocation ends with exit code 1, has issued no request and has left every
\* file and directory as it was.
C1_MissingKeyAborts ==
    (pc # "idle" /\ args.api_key = None /\ environ = None)
        => /\ pc = "exited"
           /\ exit_code = 1
           /\ requests = <<>>
           /\ written = <<>>
           /\ Unchanged

\* C1 witness: an invocation with the AI dependencies installed and no key has exited
C1_Witness ==
    /\ pc = "exited"
    /\ installed
    /\ args.api_key = None
    /\ environ = None
    /\ console = <<Say("ANTHROPIC_API_KEY not set.")>>

\* The requests issued so far are a prefix of: spec generation, endpoint docs
InOrder ==
    /\ Len(requests) <= 2
    /\ Len(requests) >= 1 => requests[1].system = SPEC_PROMPT
    /\ Len(requests) = 2 => requests[2].system = DOCS_PROMPT
    /\ pc \in {"idle", "exited"} => requests = <<>>
    /\ pc = "generate_openapi" => Len(requests) = 1
    /\ pc \in {"generate_endpoint_docs", "done"} => Len(requests) = 2

\* C2 (as stated): a completed invocation has issued exactly the spec-generation
\* request and then the endpoint-doc request, and the prompt of the second
\* contains the fence-stripped text the first returned.
C2_DocsPromptHoldsWholeSpec ==
    /\ InOrder
    /\ pc = "done" => Contains(requests[2].content, loc.yaml_content)

\* C2 (amended): the requests are issued once each and in order, the endpoint-doc
\* request only after the spec-generation request has returned, and its prompt
\* contains the first 20000 characters of the fence-stripped text.
C2_DocsPromptHoldsSpecExcerpt ==
    /\ InOrder
    /\ pc \in {"generate_endpoint_docs", "done"}
         => Contains(requests[2].content, Take(loc.yaml_content, OPENAPI_YAML_CAP))

\* C2 witness: a completed invocation whose generated spec is longer than the excerpt
C2_Witness ==
    /\ pc = "done"
    /\ Len(requests) = 2
    /\ Len(loc.yaml_content) > OPENAPI_YAML_CAP

\* C3: in a non-dry-run invocation where both external calls returned, the spec
\* file holds the generated text whether or not it validated, and the command
\* finished successfully.
C3_InvalidSpecIsPersisted ==
    (BothReturned /\ ~args.dry_run)
        => /\ pc = "done"
           /\ exit_code = 0
           /\ IsFile(OPENAPI_PATH)
           /\ fs[OPENAPI_PATH].content = loc.yaml_content

\* C4: a dry run leaves every file and directory as it was, whatever the two
\* calls return, and a completed dry run has printed the spec and each doc.
C4_DryRunWritesNothing ==
    (pc # "idle" /\ args.dry_run)
        => /\ Unchanged
           /\ written = <<>>
           /\ pc = "done" =>
                /\ \E i \in 1..Len(console) :
                     console[i] = Show("Generated openapi.yaml:", loc.yaml_content)
                /\ \A k \in 1..Len(loc.endpoint_docs) :
                     \E i \in 1..Len(console) :
                       console[i] = Show(loc.endpoint_docs[k][1], loc.endpoint_docs[k][2])

\* C4 witness: a dry run over an existing output completed with a doc to print
C4_Witness ==
    /\ pc = "done"
    /\ args.dry_run
    /\ loc.is_update
    /\ loc.endpoint_docs # <<>>

\* A location directly inside .openapi/endpoints with a name ending in .md
IsEndpointDoc(a) ==
    /\ Len(a) = Len(RootAbs) + Len(ENDPOINTS_DIR) + 1
    /\ IsPrefix(RootAbs \o ENDPOINTS_DIR, a)
    /\ EndsWith(a[Len(a)], <<".", "m", "d">>)

\* C5: every file the command writes is the spec file .openapi/openapi.yaml or a
\* markdown document directly inside .openapi/endpoints.
C5_WritesStayInOutputDir ==
    \A i \in 1..Len(written) :
        written[i] = RootAbs \o OPENAPI_PATH \/ IsEndpointDoc(written[i])

\* C6: when the spec file existed at the start, the first request's message
\* contains the first 15000 characters of its content; when it did not, the
\* message has no previous-spec section.
C6_ExistingSpecIsPassed ==
    Len(requests) >= 1
        => IF OPENAPI_PATH \in DOMAIN fs0.fs
           THEN Contains(requests[1].content,
                         Take(fs0.fs[OPENAPI_PATH].content, EXISTING_SPEC_CAP))
           ELSE ~Contains(requests[1].content, EXISTING_SPEC_HEADER)

\* C6 witness: a request was issued for an existing spec longer than the excerpt
C6_Witness ==
    /\ Len(requests) >= 1
    /\ OPENAPI_PATH \in DOMAIN fs0.fs
    /\ Len(fs0.fs[OPENAPI_PATH].content) > EXISTING_SPEC_CAP
    /\ Contains(requests[1].content, EXISTING_SPEC_HEADER)

\* The (manifest, marker) pairs of the table whose manifest can be read and
\* whose marker occurs in its lower-cased content
MarkerHits ==
    {ij \in UNION {{<<i, j>> : j \in 1..Len(FRAMEWORK_MARKERS[i].markers)} :
                     i \in 1..Len(FRAMEWORK_MARKERS)} :
        LET m == FRAMEWORK_MARKERS[ij[1]]
        IN  /\ <<m.manifest>> \in DOMAIN fs
            /\ fs[<<m.manifest>>].mode = "ok"
            /\ Contains(Lower(fs[<<m.manifest>>].content), m.markers[ij[2]][1])}

PairBefore(a, b) == a[1] < b[1] \/ (a[1] = b[1] /\ a[2] < b[2])

FirstHitFramework ==
    IF MarkerHits = {} THEN "unknown"
    ELSE LET h == CHOOSE a \in MarkerHits : \A b \in MarkerHits : a = b \/ PairBefore(a, b)
         IN  FRAMEWORK_MARKERS[h[1]].markers[h[2]][2]

\* C7: the result of _detect_framework is the framework of the first (manifest,
\* marker) pair in table order whose manifest exists and holds the marker in its
\* lower-cased content, and "unknown" when there is none.
C7_FirstMatchWins ==
    (op.fn = "_detect_framework" /\ ret.exc = None) => ret.val = FirstHitFramework

\* C7 witness: a framework was detected where a later pair of the table matches too
C7_Witness ==
    /\ op.fn = "_detect_framework"
    /\ ret.exc = None
    /\ ret.val # "unknown"
    /\ Cardinality(MarkerHits) >= 2

\* C8: gather_api_context returns an ApiContext whatever files of the tree
\* cannot be read.
C8_UnreadableNeverAborts ==
    op.fn = "gather_api_context" => ret.exc = None

\* The pairs _read_files is to return for paths: one per readable path, in order
RECURSIVE ReadablePairs(_, _)
ReadablePairs(paths, cap) ==
    IF paths = <<>> THEN <<>>
    ELSE (IF Head(paths) \in DOMAIN fs /\ fs[Head(paths)].mode = "ok"
          THEN << <<PathStr(Head(paths)), Take(fs[Head(paths)].content, cap)>> >>
          ELSE <<>>)
         \o ReadablePairs(Tail(paths), cap)

\* C9: _read_files returns, in input order, one (relative path, first
\* per_file_cap characters) pair per readable path; a path that fails to read
\* adds no pair and does not abort the batch.
C9_ReadFilesSkipsUnreadable ==
    op.fn = "_read_files"
        => /\ ret.exc = None
           /\ ret.val = ReadablePairs(op.paths, op.per_file_cap)

NoDuplicates(s) == \A i, j \in 1..Len(s) : i # j => s[i] # s[j]

Occurrences(s, x) == Cardinality({i \in 1..Len(s) : s[i] = x})

\* The files matching two or more patterns of the list
MultiMatched(patterns) ==
    LET globs == [k \in 1..Len(patterns) |-> Glob(patterns[k])]
    IN  {p \in DOMAIN fs : Cardinality({k \in 1..Len(patterns) : p \in globs[k]}) >= 2}

\* C10 (as stated): no path occurs twice in the result of _glob_files, and every
\* file that matches two or more patterns occurs in it exactly once.
C10_MultiMatchedOccurOnce ==
    op.fn = "_glob_files"
        => /\ NoDuplicates(ret.val)
           /\ \A p \in MultiMatched(op.patterns) : Occurrences(ret.val, p) = 1

\* C10 (amended): no path occurs twice in the result of _glob_files; a file that
\* matches two or more patterns occurs exactly once when it lies under no
\* ignored directory and the result is shorter than max_files, and at most once
\* otherwise.
C10_NoPathTwice ==
    op.fn = "_glob_files"
        => /\ NoDuplicates(ret.val)
           /\ \A p \in MultiMatched(op.patterns) :
                /\ Occurrences(ret.val, p) <= 1
                /\ (Len(ret.val) < op.max_files /\ \A i \in 1..Len(p) : p[i] \notin SKIP_DIRS)
                     => Occurrences(ret.val, p) = 1

\* C10 witness: the result holds a file that two or more patterns match
C10_Witness ==
    /\ op.fn = "_glob_files"
    /\ \E p \in MultiMatched(op.patterns) : Occurrences(ret.val, p) = 1

\* Whether a relative path given as text has an ignored directory among its parts
HasIgnoredPart(path) ==
    LET parts == Split(path, "/")
    IN  \E i \in 1..Len(parts) : parts[i] \in SKIP_DIRS

Categories(ctx) ==
    <<ctx.route_files, ctx.schema_files, ctx.middleware_files, ctx.config_files,
      ctx.extra_files>>

\* C11: in the ApiContext gather_api_context returns, no entry of the five
\* categories has a path with an ignored-directory segment.
C11_NoIgnoredPathInAnyCategory ==
    (op.fn = "gather_api_context" /\ ret.exc = None)
        => \A c \in 1..5 : \A k \in 1..Len(Categories(ret.val)[c]) :
               ~HasIgnoredPart(Categories(ret.val)[c][k][1])

\* A regular file with no ignored directory among the parts of its path
KeptFile(p) == IsFile(p) /\ \A i \in 1..Len(p) : p[i] \notin SKIP_DIRS

\* The kept matches of each pattern in sorted order, pattern after pattern
RECURSIVE Enumerated(_)
Enumerated(patterns) ==
    IF patterns = <<>> THEN <<>>
    ELSE SelectSeq(SortPaths(Glob(Head(patterns))), KeptFile) \o Enumerated(Tail(patterns))

\* s without the elements that occurred earlier in it
FirstOccurrences(s) ==
    LET first == {i \in 1..Len(s) : \A j \in 1..(i - 1) : s[j] # s[i]}
        RECURSIVE Pick(_)
        Pick(i) == IF i > Len(s) THEN <<>>
                   ELSE (IF i \in first THEN <<s[i]>> ELSE <<>>) \o Pick(i + 1)
    IN  Pick(1)

\* The index of the first pattern of the list that matches p
FirstPattern(patterns, p) ==
    CHOOSE k \in 1..Len(patterns) :
        /\ p \in Glob(patterns[k])
        /\ \A m \in 1..(k - 1) : p \notin Glob(patterns[m])

\* C12: _glob_files returns the first max_files elements of the enumeration of
\* the patterns in list order, each pattern's matches in sorted order, keeping
\* regular files under no ignored directory and dropping paths collected
\* before; the result has at most max_files entries, and a match of an earlier
\* pattern precedes the matches of later patterns only.
C12_GlobFilesIsCappedEnumeration ==
    op.fn = "_glob_files"
        => /\ ret.val = Take(FirstOccurrences(Enumerated(op.patterns)), op.max_files)
           /\ Len(ret.val) <= op.max_files
           /\ \A i, j \in 1..Len(ret.val) :
                i < j => FirstPattern(op.patterns, ret.val[i])
                           <= FirstPattern(op.patterns, ret.val[j])

\* C12 witness: the enumeration was cut at max_files
C12_Witness ==
    /\ op.fn = "_glob_files"
    /\ Len(ret.val) = op.max_files
    /\ Len(FirstOccurrences(Enumerated(op.patterns))) > op.max_files

\* C13: in every ApiContext gather_api_context returns, has_api_code is true
\* exactly when endpoint_count > 0 or route_files is non-empty; with no route
\* file it is false and endpoint_count is 0, whatever the other categories hold.
C13_HasApiCodeIffRoutes ==
    (op.fn = "gather_api_context" /\ ret.exc = None)
        => /\ ret.val.has_api_code <=> (ret.val.endpoint_count > 0 \/ ret.val.route_files # <<>>)
           /\ ret.val.route_files = <<>>
                => ~ret.val.has_api_code /\ ret.val.endpoint_count = 0

\* C13 witness: a context with files of other categories and no route file
C13_Witness ==
    /\ op.fn = "gather_api_context"
    /\ ret.exc = None
    /\ ret.val.route_files = <<>>
    /\ ret.val.schema_files # <<>>
    /\ ret.val.extra_files # <<>>
    /\ ~ret.val.has_api_code

\* C14 (as stated): a text that neither starts nor ends with a code fence is
\* returned by _strip_yaml_fences unchanged.
C14_UnfencedIsUnchanged ==
    (op.fn = "_strip_yaml_fences" /\ ~StartsWith(op.text, FENCE) /\ ~EndsWith(op.text, FENCE))
        => ret.val = op.text

\* The leading fence of a text: the first of the three it starts with, if any
LeadingFence(t) ==
    LET fences == << <<"backtick","backtick","backtick","y","a","m","l">>, <<"backtick","backtick","backtick","y","m","l">>, FENCE >>
        found == {k \in 1..3 : StartsWith(t, fences[k])}
    IN  IF found = {} THEN <<>>
        ELSE fences[CHOOSE k \in found : \A m \in found : k <= m]

\* C14 (amended): _strip_yaml_fences strips the whitespace around the text,
\* removes one leading fence (```yaml, ```yml or ```) and then one trailing
\* ```, stripping whitespace again after each; a text whose stripped form
\* neither starts nor ends with a fence is returned stripped of surrounding
\* whitespace, so unchanged only when it has none.
C14_UnfencedIsStripped ==
    op.fn = "_strip_yaml_fences"
        => LET t == Strip(op.text)
               body == Strip(Drop(t, Len(LeadingFence(t))))
           IN  /\ ret.val = IF EndsWith(body, FENCE)
                            THEN Strip(Take(body, Len(body) - Len(FENCE))) ELSE body
               /\ (~StartsWith(t, FENCE) /\ ~EndsWith(t, FENCE)) => ret.val = t

\* C14 witness: an unfenced text with whitespace around it came back without it
C14_Witness ==
    /\ op.fn = "_strip_yaml_fences"
    /\ ~StartsWith(op.text, FENCE)
    /\ ~EndsWith(op.text, FENCE)
    /\ ~Contains(op.text, FENCE)
    /\ ret.val # op.text
    /\ ret.val = Strip(op.text)
    /\ ret.val # <<>>

\* The pairs a rendered response is to parse to: one per document with content
RECURSIVE ExpectedPairs(_)
ExpectedPairs(docs) ==
    IF docs = <<>> THEN <<>>
    ELSE (IF Strip(Head(docs)[2]) # <<>>
          THEN << <<Head(docs)[1], Strip(Head(docs)[2])>> >> ELSE <<>>)
         \o ExpectedPairs(Tail(docs))

\* C15: _parse_endpoint_docs does not raise; a response of delimiters each
\* followed by its content parses to the (filename, content) pairs of the
\* documents with content, in document order; what precedes the first
\* delimiter is discarded, and a response without delimiter parses to <<>>.
C15_ParsesDocsInOrder ==
    op.fn = "_parse_endpoint_docs"
        => /\ ret.exc = None
           /\ ret.val = ExpectedPairs(op.docs)
           /\ op.docs = <<>> => ret.val = <<>>

\* C15 witness: two documents with content after an introduction gave two pairs
C15_Witness ==
    /\ op.fn = "_parse_endpoint_docs"
    /\ op.prefix # <<>>
    /\ Len(op.docs) = 2
    /\ Len(ret.val) = 2
    /\ ret.val[1][1] # ret.val[2][1]

LowerLetters == {LowerCase[i] : i \in 1..Len(LowerCase)}
Digits == {"0", "1", "2", "3", "4", "5", "6", "7", "8", "9"}

\* s matches ^[a-z]+-[a-z0-9-]*$
MatchesSlugPattern(s) ==
    \E k \in 1..(Len(s) - 1) :
        /\ \A i \in 1..k : s[i] \in LowerLetters
        /\ s[k + 1] = "-"
        /\ \A i \in (k + 2)..Len(s) : s[i] \in LowerLetters \cup Digits \cup {"-"}

\* The slug of a path, character by character: a slash inside becomes a
\* hyphen, a letter is folded, a digit or hyphen stays, anything else goes
RECURSIVE SlugOf(_)
SlugOf(trimmed) ==
    IF trimmed = <<>> THEN <<>>
    ELSE LET c == Head(trimmed)
         IN  (IF c = "/" THEN <<"-">>
              ELSE IF LowerChar[c] \in LowerLetters \cup Digits \cup {"-"} THEN <<LowerChar[c]>>
              ELSE <<>>) \o SlugOf(Tail(trimmed))

\* The path without its leading and trailing slashes
RECURSIVE Trimmed(_)
Trimmed(path) ==
    IF path = <<>> THEN <<>>
    ELSE IF Head(path) = "/" THEN Trimmed(Tail(path))
    ELSE IF path[Len(path)] = "/" THEN Trimmed(SubSeq(path, 1, Len(path) - 1))
    ELSE path

\* C16: the result of _endpoint_slug matches ^[a-z]+-[a-z0-9-]*$: it is the
\* lower-cased method, a hyphen, and the path trimmed of slashes, with inner
\* slashes as hyphens, braces and every character outside [A-Za-z0-9-]
\* removed, and case folded.
C16_SlugIsWellFormed ==
    op.fn = "_endpoint_slug"
        => /\ MatchesSlugPattern(ret.val)
           /\ ret.val = Lower(op.method) \o <<"-">> \o SlugOf(Trimmed(op.path))

\* C16 witness: a slug of a path that lost characters and was case folded
C16_Witness ==
    /\ op.fn = "_endpoint_slug"
    /\ Len(ret.val) < Len(op.method) + 1 + Len(op.path)
    /\ op.path # Lower(op.path)
    /\ Contains(op.path, <<"{">>)

\* C17: validate_openapi_yaml does not raise and returns true exactly when
\* the text parses to a mapping that has the key openapi.
C17_ValidatesWithoutRaising ==
    op.fn = "validate_openapi_yaml"
        => /\ ret.exc = None
           /\ ret.val <=> (SafeLoad(op.text).kind = "dict" /\ "openapi" \in SafeLoad(op.text).keys)

\* C18: when either external call fails, the invocation ends with the failure
\* and has written no file and created no directory; nothing is written
\* before the second call has returned.
C18_FailedCallWritesNothing ==
    /\ (pc = "raised" /\ loc.exc = "APIError")
         => /\ exit_code = 1
            /\ written = <<>>
            /\ Unchanged
    /\ pc \in {"generate_openapi", "generate_endpoint_docs"} => (written = <<>> /\ Unchanged)
    /\ written # <<>> => (Len(requests) = 2 /\ pc \in {"done", "raised"} /\ loc.exc # "APIError")

\* C18 witness: the second call failed after the first had returned a spec
C18_Witness ==
    /\ pc = "raised"
    /\ loc.exc = "APIError"
    /\ ~args.dry_run
    /\ Len(requests) = 2
    /\ loc.yaml_content # <<>>
    /\ ~IsFile(OPENAPI_PATH)

\* The filenames the endpoint-doc response of the invocation returned
ReturnedNames == {loc.endpoint_docs[k][1] : k \in 1..Len(loc.endpoint_docs)}

\* The content of the last document returned under the name
LastContent(name) ==
    LET at == {k \in 1..Len(loc.endpoint_docs) : loc.endpoint_docs[k][1] = name}
    IN  loc.endpoint_docs[CHOOSE k \in at : \A m \in at : m <= k][2]

\* The endpoint documents present when the invocation started
DocsAtStart ==
    {p \in DOMAIN fs0.fs : Len(p) = Len(ENDPOINTS_DIR) + 1 /\ IsPrefix(ENDPOINTS_DIR, p)}

\* C19: no file is deleted; an endpoint document present at the start whose
\* filename the response does not return is left as it was; after a completed
\* invocation that writes, one whose filename is returned holds the content of
\* the last document returned under that name.
C19_StaleDocsPersist ==
    /\ DOMAIN fs0.fs \subseteq DOMAIN fs
    /\ \A p \in DocsAtStart :
         /\ p[Len(p)] \notin ReturnedNames => fs[p] = fs0.fs[p]
         /\ (pc = "done" /\ ~args.dry_run /\ p[Len(p)] \in ReturnedNames)
              => fs[p].content = LastContent(p[Len(p)])

============================================================================
